---- MODULE Spec2Model ----
(***************************************************************************)
(* Model of the yourcast episode builder and ingestion pipeline.           *)
(*                                                                         *)
(*   Spec        one episode request delivered to the worker's /generate   *)
(*               handler (http_worker.py) and run through                  *)
(*               PodcastGenerator.generate_episode                         *)
(*   SelSpec     SmartArticleService.get_articles_by_subcategories         *)
(*   CluSpec     ClusteringService.process_article on concurrent sessions  *)
(*   ScriptSpec  script assembly and TTS fan-out / fan-in                  *)
(*   AlignSpec   TranscriptService.generate_forced_alignment               *)
(*   ConcSpec    two episode runs in one worker process                    *)
(*   JudgeSpec   the importance of a new cluster, from reply to row        *)
(*   ApiSpec     the API's create request against the /generate handler    *)
(*   RedisSpec   the Redis queue worker (RedisFairSpec: with fairness)     *)
(***************************************************************************)
EXTENDS Integers, Sequences, FiniteSets, TLC

VARIABLES
    \* ---- episode pipeline (Spec) ----
    pc,          \* position of the /generate handler
    run,         \* number of deliveries of the episode request so far
    row,         \* the episode row
    statusRun,   \* the run whose write produced row.status (0: the API)
    writes,      \* statuses written by the current run, in order
    raised,      \* text of the exception in flight / last raised in this run
    errAt,       \* Len(writes) when the exception was raised
    steps,       \* pipeline steps executed by the current run
    runUploads,  \* per run, per artifact kind: number of uploads
    store,       \* artifact kinds present in the object store
    sources,     \* number of store_sources calls that succeeded
    segments,    \* number of store_episode_segments calls that succeeded
    startSnap,   \* the episode row and stored data when the run was received
    loc,         \* locals of generate_episode (articles, urls, title)
    \* ---- article selector (SelSpec) ----
    spc,         \* position inside get_articles_by_subcategories / conversion
    req,         \* the call's arguments
    srcTable,    \* sources JOIN episodes: <<user, cluster, episode status>>
    heard_cluster_ids,     \* as read at the start of the call
    eligible_articles,     \* rows left after the heard filter
    articles,              \* the selection being built / returned
    selected_cluster_ids,
    phaseLen,    \* Len(articles) after Phase 1(a), 1(b), 2a, 2b
    srcs,        \* sources built by _convert_articles_to_sources
    \* ---- ingestion / clustering (CluSpec) ----
    dbArticles,  \* committed rows of the articles table
    dbClusters,  \* committed rows of the story_clusters table
    sess,        \* per database session: the process_article invocation
    nextId,      \* source of fresh uuid4 values
    \* ---- script assembly and audio (ScriptSpec) ----
    gpc,            \* position in generate_podcast / generate_audio_chunks
    gsources,       \* the sources handed to generate_podcast
    topics_map,     \* topic name -> sources, in dictionary order
    framing,        \* session.state["framing"]
    metadata,       \* session.state["metadata"]
    topic_scripts,  \* session.state["topic_script_<name>"]
    agent_order,    \* topic names in the order their agents finished
    paragraphs,     \* script.paragraphs
    audio_results,  \* index -> result of generate_single_audio
    tts_unordered,  \* a TTS call finished before one of a lower index
    audio_files,    \* ordered chunk paths
    all_timestamps, \* ordered chunk timestamps
    combined,       \* chunk paths in the combined audio, in play order
    transcript_data, \* segments returned by generate_forced_alignment
    \* ---- transcript alignment as a function (AlignSpec) ----
    apc,            \* position of the generate_forced_alignment call
    ascript,        \* its script argument (the paragraphs)
    achunks,        \* its chunk_timestamps argument
    asegments,      \* its result
    \* ---- two episode runs in one worker process (ConcSpec) ----
    loop,           \* the coroutine the event loop is running, or Free
    rpc,            \* per run: its position
    nparas,         \* per run: number of script paragraphs
    tmpfiles,       \* the files of tempfile.gettempdir()
    chunk_paths,    \* per run: audio_files, the chunk paths so far
    uploaded,       \* per run: the content of the uploaded audio
    interfered,     \* a run touched a file of the other, live, run
    \* ---- one judge reply becoming a cluster row (JudgeSpec) ----
    jpc,            \* position: reply received, decision parsed, row stored
    reply,          \* the judge's JSON reply, as parsed by json.loads
    decision,       \* the decision returned by _parse_ai_decision
    cluster_row,    \* the story_clusters row inserted by _create_new_cluster
    article_data,   \* the record handed to process_article
    similar,        \* _find_similar_articles found neighbours
    article_row,    \* the articles row inserted by _save_article
    \* ---- episode jobs between API and workers (ApiSpec, RedisSpec) ----
    erows,          \* per episode: status of its episodes row
    api,            \* per episode: position of the API's create request
    cloud_tasks,    \* episodes with a Cloud Task awaiting delivery
    episode_queue,  \* the Redis list "episode_queue", left to right
    wpc,            \* per episode: position of the worker handling its job
    executed        \* episodes whose generate_episode body has run

alignVars == <<apc, ascript, achunks, asegments>>

concVars == <<loop, rpc, nparas, tmpfiles, chunk_paths, uploaded, interfered>>

judgeVars ==
    <<jpc, reply, decision, cluster_row, article_data, similar, article_row>>

jobVars == <<erows, api, cloud_tasks, episode_queue, wpc, executed>>

cluVars == <<dbArticles, dbClusters, sess, nextId>>

scrVars == <<gpc, gsources, topics_map, framing, metadata, topic_scripts,
             agent_order,
             paragraphs, audio_results, tts_unordered, audio_files,
             all_timestamps, combined, transcript_data>>

selVars == <<spc, req, srcTable, heard_cluster_ids, eligible_articles,
             articles, selected_cluster_ids, phaseLen, srcs>>

pipeVars == <<pc, run, row, statusRun, writes, raised, errAt, steps,
              runUploads, store, sources, segments, startSnap, loc>>

\* What the actions of one subsystem leave alone: the other subsystems.
PipeFrame ==
    UNCHANGED <<selVars, cluVars, scrVars, alignVars, concVars, judgeVars,
                jobVars>>
SelFrame ==
    UNCHANGED <<pipeVars, cluVars, scrVars, alignVars, concVars, judgeVars,
                jobVars>>
CluFrame ==
    UNCHANGED <<pipeVars, selVars, scrVars, alignVars, concVars, judgeVars,
                jobVars>>
ScrFrame ==
    UNCHANGED <<pipeVars, selVars, cluVars, alignVars, concVars, judgeVars,
                jobVars>>
AlignFrame ==
    UNCHANGED <<pipeVars, selVars, cluVars, scrVars, concVars, judgeVars,
                jobVars>>
JudgeFrame ==
    UNCHANGED <<pipeVars, selVars, cluVars, scrVars, alignVars, concVars,
                jobVars>>
JobFrame ==
    UNCHANGED <<pipeVars, selVars, cluVars, scrVars, alignVars, concVars,
                judgeVars>>
ConcFrame ==
    UNCHANGED <<pipeVars, selVars, cluVars, scrVars, alignVars, judgeVars,
                jobVars>>

(***************************************************************************)
(* Bounds                                                                  *)
(***************************************************************************)
MaxDeliveries == 2
MaxN == 3          \* largest total_articles requested
MaxHeard == 2      \* largest number of clusters the user has heard
MaxBatch == 3      \* records handed to the ingestion sessions, in all
MaxSources == 2    \* sources handed to generate_podcast
MaxChunks == 3     \* chunks handed to generate_forced_alignment
MaxRequests == 2   \* create requests of the API
MaxJobs == 3       \* jobs pushed to the Redis list
MaxParas == 2      \* script paragraphs of a concurrent episode run

(***************************************************************************)
(* Episode pipeline                                                        *)
(***************************************************************************)
NoError == "none"
NoNewArticles == "No new articles available for your selected topics"

DeclaredStates == <<"pending", "discovering_articles", "extracting_content",
                    "generating_script", "generating_audio",
                    "generating_timestamps", "uploading_files", "finalizing",
                    "completed">>

Kinds == {"audio", "transcript", "vtt"}

EmptyUrl == <<>>

\* StorageService._upload_*: the URL returned for an artifact of one kind.
UploadUrl(kind) == <<"storage_base_url", kind, "episode_id">>

NoLocals == [articles |-> 0, audio_url |-> EmptyUrl, transcript_url |-> EmptyUrl,
             vtt_url |-> EmptyUrl, title |-> "", script |-> FALSE,
             audio |-> FALSE, transcript |-> FALSE]

InitialRow(st) == [status |-> st, error |-> NoError, title |-> "Generating...",
                   audio_url |-> EmptyUrl, transcript_url |-> EmptyUrl,
                   vtt_url |-> EmptyUrl]

Snapshot == [row |-> row, sources |-> sources, segments |-> segments]

\* EpisodeService.set_episode_status of the worker: the new state (and the
\* error text when one is given) is written to the episode row.
SetEpisodeStatus(r, st, err) ==
    [r EXCEPT !.status = st, !.error = IF err = NoError THEN @ ELSE err]

\* EpisodeService.update_episode of the worker: the final data and the
\* status are written to the episode row.
UpdateEpisodeRow(r, l) ==
    [r EXCEPT !.status = "completed", !.title = l.title,
              !.audio_url = l.audio_url, !.transcript_url = l.transcript_url,
              !.vtt_url = l.vtt_url]

WriteStatus(st, err) ==
    /\ row' = SetEpisodeStatus(row, st, err)
    /\ writes' = Append(writes, st)
    /\ statusRun' = run

\* An exception raised inside the try block of generate_episode.
Raise(e) ==
    /\ pc' = "inner_except"
    /\ raised' = e
    /\ errAt' = Len(writes)

PipeInit ==
    /\ pc = "idle"
    /\ run = 0
    /\ row \in {InitialRow("pending"), InitialRow("queued")}
    /\ statusRun = 0
    /\ writes = <<>>
    /\ raised = NoError
    /\ errAt = 0
    /\ steps = {}
    /\ runUploads = [r \in 1..MaxDeliveries |-> [k \in Kinds |-> 0]]
    /\ store = {}
    /\ sources = 0
    /\ segments = 0
    /\ startSnap = [row |-> row, sources |-> 0, segments |-> 0]
    /\ loc = NoLocals

\* http_worker.generate_episode, lines 39-55: the request is taken.
Receive ==
    /\ pc \in {"idle", "done", "cancelled"}
    /\ run < MaxDeliveries
    /\ run' = run + 1
    /\ pc' = "construct"
    /\ writes' = <<>>
    /\ raised' = NoError
    /\ errAt' = 0
    /\ steps' = {}
    /\ startSnap' = Snapshot
    /\ loc' = NoLocals
    /\ UNCHANGED <<row, statusRun, runUploads, store, sources, segments>>
    /\ PipeFrame

\* http_worker.generate_episode, lines 57-60: EpisodeService(), PodcastGenerator().
Construct ==
    /\ pc = "construct"
    /\ \/ /\ pc' = "set_processing"
          /\ UNCHANGED <<raised, errAt>>
       \/ /\ pc' = "outer_except"
          /\ raised' = "construct failed"
          /\ errAt' = Len(writes)
    /\ UNCHANGED <<run, row, statusRun, writes, steps, runUploads, store,
                   sources, segments, startSnap, loc>>
    /\ PipeFrame

\* http_worker.generate_episode, lines 62-66.
SetProcessing ==
    /\ pc = "set_processing"
    /\ WriteStatus("processing", NoError)
    /\ pc' = "get_episode"
    /\ UNCHANGED <<run, raised, errAt, steps, runUploads, store, sources,
                   segments, startSnap, loc>>
    /\ PipeFrame

\* podcast_generator.py lines 33-35.
GetEpisode ==
    /\ pc = "get_episode"
    /\ \/ /\ pc' = "st_discovering"
          /\ UNCHANGED <<raised, errAt>>
       \/ Raise("get_episode failed")
    /\ UNCHANGED <<run, row, statusRun, writes, steps, runUploads, store,
                   sources, segments, startSnap, loc>>
    /\ PipeFrame

\* podcast_generator.py lines 38-40.
StatusDiscovering ==
    /\ pc = "st_discovering"
    /\ WriteStatus("discovering_articles", NoError)
    /\ pc' = "select"
    /\ UNCHANGED <<run, raised, errAt, steps, runUploads, store, sources,
                   segments, startSnap, loc>>
    /\ PipeFrame

\* podcast_generator.py lines 54-57, proceeding on an empty selection.
SelectNoCheck ==
    /\ pc = "select"
    /\ \E n \in 0..1 :
          /\ loc' = [loc EXCEPT !.articles = n]
          /\ steps' = steps \cup {"select"}
          /\ pc' = "st_extracting"
          /\ UNCHANGED <<raised, errAt>>
    /\ UNCHANGED <<run, row, statusRun, writes, runUploads, store, sources,
                   segments, startSnap>>
    /\ PipeFrame

\* podcast_generator.py lines 44-57: the selector is called (it never raises:
\* it returns [] on any error) and an empty selection raises.
Select ==
    /\ pc = "select"
    /\ \E n \in 0..1 :
          /\ loc' = [loc EXCEPT !.articles = n]
          /\ steps' = steps \cup {"select"}
          /\ IF n = 0
               THEN Raise(NoNewArticles)
               ELSE /\ pc' = "st_extracting"
                    /\ UNCHANGED <<raised, errAt>>
    /\ UNCHANGED <<run, row, statusRun, writes, runUploads, store, sources,
                   segments, startSnap>>
    /\ PipeFrame

\* podcast_generator.py lines 60-62.
StatusExtracting ==
    /\ pc = "st_extracting"
    /\ WriteStatus("extracting_content", NoError)
    /\ pc' = "extract"
    /\ UNCHANGED <<run, raised, errAt, steps, runUploads, store, sources,
                   segments, startSnap, loc>>
    /\ PipeFrame

\* podcast_generator.py line 63: _convert_articles_to_sources.
Extract ==
    /\ pc = "extract"
    /\ steps' = steps \cup {"extract"}
    /\ \/ /\ pc' = "store_sources"
          /\ UNCHANGED <<raised, errAt>>
       \/ Raise("content extraction failed")
    /\ UNCHANGED <<run, row, statusRun, writes, runUploads, store, sources,
                   segments, startSnap, loc>>
    /\ PipeFrame

\* podcast_generator.py line 64: store_sources.
StoreSources ==
    /\ pc = "store_sources"
    /\ \/ /\ sources' = sources + 1
          /\ pc' = "st_script"
          /\ UNCHANGED <<raised, errAt>>
       \/ /\ Raise("store_sources failed")
          /\ UNCHANGED sources
    /\ UNCHANGED <<run, row, statusRun, writes, steps, runUploads, store,
                   segments, startSnap, loc>>
    /\ PipeFrame

\* podcast_generator.py lines 67-69.
StatusScript ==
    /\ pc = "st_script"
    /\ WriteStatus("generating_script", NoError)
    /\ pc' = "script"
    /\ UNCHANGED <<run, raised, errAt, steps, runUploads, store, sources,
                   segments, startSnap, loc>>
    /\ PipeFrame

\* podcast_generator.py lines 71-79: the ADK workflow drafts the script.
GenerateScript ==
    /\ pc = "script"
    /\ steps' = steps \cup {"llm"}
    /\ \/ /\ loc' = [loc EXCEPT !.script = TRUE, !.title = "adk_title"]
          /\ pc' = "st_audio"
          /\ UNCHANGED <<raised, errAt>>
       \/ /\ Raise("script generation failed")
          /\ UNCHANGED loc
    /\ UNCHANGED <<run, row, statusRun, writes, runUploads, store, sources,
                   segments, startSnap>>
    /\ PipeFrame

\* podcast_generator.py lines 82-84.
StatusAudio ==
    /\ pc = "st_audio"
    /\ WriteStatus("generating_audio", NoError)
    /\ pc' = "tts"
    /\ UNCHANGED <<run, raised, errAt, steps, runUploads, store, sources,
                   segments, startSnap, loc>>
    /\ PipeFrame

\* podcast_generator.py line 85: generate_audio_chunks.
GenerateAudio ==
    /\ pc = "tts"
    /\ steps' = steps \cup {"tts"}
    /\ \/ /\ pc' = "combine"
          /\ UNCHANGED <<raised, errAt>>
       \/ Raise("tts failed")
    /\ UNCHANGED <<run, row, statusRun, writes, runUploads, store, sources,
                   segments, startSnap, loc>>
    /\ PipeFrame

\* podcast_generator.py line 86: combine_audio_chunks.
CombineAudio ==
    /\ pc = "combine"
    /\ \/ /\ loc' = [loc EXCEPT !.audio = TRUE]
          /\ pc' = "st_timestamps"
          /\ UNCHANGED <<raised, errAt>>
       \/ /\ Raise("combine failed")
          /\ UNCHANGED loc
    /\ UNCHANGED <<run, row, statusRun, writes, steps, runUploads, store,
                   sources, segments, startSnap>>
    /\ PipeFrame

\* podcast_generator.py lines 89-91.
StatusTimestamps ==
    /\ pc = "st_timestamps"
    /\ WriteStatus("generating_timestamps", NoError)
    /\ pc' = "transcript"
    /\ UNCHANGED <<run, raised, errAt, steps, runUploads, store, sources,
                   segments, startSnap, loc>>
    /\ PipeFrame

\* podcast_generator.py lines 92-95: forced alignment and WebVTT.
GenerateTranscript ==
    /\ pc = "transcript"
    /\ \/ /\ loc' = [loc EXCEPT !.transcript = TRUE]
          /\ pc' = "st_uploading"
          /\ UNCHANGED <<raised, errAt>>
       \/ /\ Raise("transcript failed")
          /\ UNCHANGED loc
    /\ UNCHANGED <<run, row, statusRun, writes, steps, runUploads, store,
                   sources, segments, startSnap>>
    /\ PipeFrame

\* podcast_generator.py lines 98-100.
StatusUploading ==
    /\ pc = "st_uploading"
    /\ WriteStatus("uploading_files", NoError)
    /\ pc' = "upload_audio"
    /\ UNCHANGED <<run, raised, errAt, steps, runUploads, store, sources,
                   segments, startSnap, loc>>
    /\ PipeFrame

\* One call of StorageService.upload_<kind>: the artifact is stored and its
\* URL returned, or the call raises.
Upload(kind, next) ==
    /\ steps' = steps \cup {"upload"}
    /\ \/ /\ store' = store \cup {kind}
          /\ runUploads' = [runUploads EXCEPT ![run][kind] = @ + 1]
          /\ loc' = [loc EXCEPT ![IF kind = "audio" THEN "audio_url"
                                   ELSE IF kind = "transcript" THEN "transcript_url"
                                   ELSE "vtt_url"] = UploadUrl(kind)]
          /\ pc' = next
          /\ UNCHANGED <<raised, errAt>>
       \/ /\ Raise("upload failed")
          /\ UNCHANGED <<store, runUploads, loc>>
    /\ UNCHANGED <<run, row, statusRun, writes, sources, segments, startSnap>>
    /\ PipeFrame

\* podcast_generator.py line 101.
UploadAudio == pc = "upload_audio" /\ Upload("audio", "upload_transcript")

\* podcast_generator.py line 102.
UploadTranscript == pc = "upload_transcript" /\ Upload("transcript", "upload_vtt")

\* podcast_generator.py line 103, with the upload left out.
UploadVttSkipped ==
    /\ pc = "upload_vtt"
    /\ pc' = "st_finalizing"
    /\ UNCHANGED <<run, row, statusRun, writes, raised, errAt, steps,
                   runUploads, store, sources, segments, startSnap, loc>>
    /\ PipeFrame

\* podcast_generator.py line 103.
UploadVtt == pc = "upload_vtt" /\ Upload("vtt", "st_finalizing")

\* podcast_generator.py lines 106-108.
StatusFinalizing ==
    /\ pc = "st_finalizing"
    /\ WriteStatus("finalizing", NoError)
    /\ pc' = "update_episode"
    /\ UNCHANGED <<run, raised, errAt, steps, runUploads, store, sources,
                   segments, startSnap, loc>>
    /\ PipeFrame

\* podcast_generator.py lines 116-125: update_episode(..., status="completed").
UpdateEpisode ==
    /\ pc = "update_episode"
    /\ \/ /\ row' = UpdateEpisodeRow(row, loc)
          /\ writes' = Append(writes, "completed")
          /\ statusRun' = run
          /\ pc' = "store_segments"
          /\ UNCHANGED <<raised, errAt>>
       \/ /\ Raise("update_episode failed")
          /\ UNCHANGED <<row, writes, statusRun>>
    /\ UNCHANGED <<run, steps, runUploads, store, sources, segments,
                   startSnap, loc>>
    /\ PipeFrame

\* podcast_generator.py line 128: store_episode_segments.
StoreSegments ==
    /\ pc = "store_segments"
    /\ \/ /\ segments' = segments + 1
          /\ pc' = "st_completed"
          /\ UNCHANGED <<raised, errAt>>
       \/ /\ Raise("store_episode_segments failed")
          /\ UNCHANGED segments
    /\ UNCHANGED <<run, row, statusRun, writes, steps, runUploads, store,
                   sources, startSnap, loc>>
    /\ PipeFrame

\* podcast_generator.py lines 131-135.
StatusCompleted ==
    /\ pc = "st_completed"
    /\ WriteStatus("completed", NoError)
    /\ pc' = "return_ok"
    /\ UNCHANGED <<run, raised, errAt, steps, runUploads, store, sources,
                   segments, startSnap, loc>>
    /\ PipeFrame

\* podcast_generator.py lines 137-142 with the handler swallowing the error.
InnerExceptSwallow ==
    /\ pc = "inner_except"
    /\ pc' = "return_ok"
    /\ UNCHANGED <<run, row, statusRun, writes, raised, errAt, steps,
                   runUploads, store, sources, segments, startSnap, loc>>
    /\ PipeFrame

\* podcast_generator.py lines 137-142: except Exception: failed, re-raise.
InnerExcept ==
    /\ pc = "inner_except"
    /\ WriteStatus("failed", raised)
    /\ pc' = "outer_except"
    /\ UNCHANGED <<run, raised, errAt, steps, runUploads, store, sources,
                   segments, startSnap, loc>>
    /\ PipeFrame

\* http_worker.py lines 79-100: except Exception: failed, HTTP 500.
OuterExcept ==
    /\ pc = "outer_except"
    /\ WriteStatus("failed", raised)
    /\ pc' = "done"
    /\ UNCHANGED <<run, raised, errAt, steps, runUploads, store, sources,
                   segments, startSnap, loc>>
    /\ PipeFrame

\* http_worker.py lines 71-77: the success response.
ReturnOk ==
    /\ pc = "return_ok"
    /\ pc' = "done"
    /\ UNCHANGED <<run, row, statusRun, writes, raised, errAt, steps,
                   runUploads, store, sources, segments, startSnap, loc>>
    /\ PipeFrame

\* The task running the handler is cancelled while it is suspended in
\* `await self.adk_workflow.generate_podcast(...)` (podcast_generator.py
\* line 75), the only await of the run: asyncio.CancelledError is a
\* BaseException, so neither `except Exception` (podcast_generator.py line
\* 137, http_worker.py line 79) catches it and the run ends there.
Cancel ==
    /\ pc = "script"
    /\ pc' = "cancelled"
    /\ UNCHANGED <<run, row, statusRun, writes, raised, errAt, steps,
                   runUploads, store, sources, segments, startSnap, loc>>
    /\ PipeFrame

PipeNext ==
    \/ Receive \/ Construct \/ SetProcessing \/ GetEpisode
    \/ StatusDiscovering \/ Select \/ StatusExtracting \/ Extract
    \/ StoreSources \/ StatusScript \/ GenerateScript \/ StatusAudio
    \/ GenerateAudio \/ CombineAudio \/ StatusTimestamps
    \/ GenerateTranscript \/ StatusUploading \/ UploadAudio
    \/ UploadTranscript \/ UploadVtt \/ StatusFinalizing \/ UpdateEpisode
    \/ StoreSegments \/ StatusCompleted \/ InnerExcept \/ OuterExcept
    \/ ReturnOk \/ Cancel


(***************************************************************************)
(* Article selector                                                        *)
(***************************************************************************)
MinImportance == 40
WorldNewsMinimum == 2
BackupLimit == 3

None == "None"

\* str.lower() on the tags of the model.
Lower(t) ==
    CASE t = "AI" -> "ai"
      [] t = "Nvidia" -> "nvidia"
      [] t = "EU" -> "eu"
      [] t = "Jensen Huang" -> "jensen huang"
      [] OTHER -> t

world_news_subcats == <<"Africa", "Asia", "Europe", "Middle East",
                        "North America", "South America", "Oceania">>

Range(s) == {s[i] : i \in 1..Len(s)}

IsWorldNews(sub) == sub \in Range(world_news_subcats)

\* The articles and story_clusters tables joined: one record per article,
\* with its cluster's importance_score and the combined score the query
\* computes for it (coverage boost and time decay applied). fresh: published
\* within ARTICLE_FRESHNESS_DAYS.
Art(id, cl, sub, cat, tags, imp, comb, fresh) ==
    [article_id |-> id, cluster_id |-> cl, subcategory |-> sub,
     category |-> cat, tags |-> tags, importance_score |-> imp,
     combined_score |-> comb, fresh |-> fresh]

Corpus ==
    { Art(1,  1, "Europe", "World News", {"EU"}, 80, 90, TRUE),
      Art(2,  1, "Europe", "World News", {}, 80, 10, TRUE),
      Art(3,  2, "Europe", "World News", {}, 70, 80, TRUE),
      Art(4,  3, "Asia", "World News", {}, 60, 30, TRUE),
      Art(5,  4, "Tennis", "Sports", {}, 65, 70, TRUE),
      Art(6,  5, "AI & Machine Learning", "Technology", {"Nvidia", "AI"}, 90, 60, TRUE),
      Art(7,  6, "AI & Machine Learning", "Technology", {"ai"}, 55, 50, TRUE),
      Art(8,  6, "AI & Machine Learning", "Technology", {}, 55, 45, TRUE),
      Art(9,  7, "Football (Soccer)", "Sports", {"nvidia"}, 50, 20, TRUE),
      Art(10, 8, "Tennis", "Sports", {"AI"}, 30, 95, TRUE),
      Art(11, 9, "Tennis", "Sports", {}, 75, 85, FALSE),
      Art(12, 10, None, "General", {"AI"}, 45, 40, TRUE),
      Art(13, 3,  "Asia", "World News", {}, 60, 9, TRUE),
      Art(14, 3,  "Asia", "World News", {}, 60, 8, TRUE),
      Art(15, 3,  "Asia", "World News", {}, 60, 7, TRUE),
      Art(16, 3,  "Asia", "World News", {}, 60, 6, TRUE) }

Clusters == {a.cluster_id : a \in Corpus}

SubsChoices ==
    { <<>>, <<"Europe">>, <<"Europe", "Asia">>, <<"Asia", "Tennis">>,
      <<"Tennis", "AI & Machine Learning">>, <<"AI & Machine Learning">>,
      <<"Europe", "Tennis", "AI & Machine Learning">> }

TagChoices ==
    { <<>>, <<"AI">>, <<"AI", "ai">>, <<"Nvidia">>, <<"nvidia", "AI">>,
      <<"Jensen Huang">> }

Users == {"u1", None}

\* Stable sort of a sequence of records by field f, descending: list.sort(
\* key=lambda x: x[f], reverse=True).
InsertDesc(x, s, f) ==
    LET k == Cardinality({i \in 1..Len(s) : s[i][f] >= x[f]})
    IN  SubSeq(s, 1, k) \o <<x>> \o SubSeq(s, k + 1, Len(s))

RECURSIVE SortDesc(_, _)
SortDesc(s, f) ==
    IF s = <<>> THEN <<>>
    ELSE InsertDesc(s[Len(s)], SortDesc(SubSeq(s, 1, Len(s) - 1), f), f)

\* The rows of a set of records ordered by cluster_id (ORDER BY a.cluster_id).
RECURSIVE ByClusterId(_)
ByClusterId(S) ==
    IF S = {} THEN <<>>
    ELSE LET a == CHOOSE x \in S : \A y \in S : x.cluster_id <= y.cluster_id
         IN  <<a>> \o ByClusterId(S \ {a})

TagMatches(a, tag) == \E t \in a.tags : Lower(t) = Lower(tag)

\* The heard query, lines 238-243: clusters referenced by sources of the
\* user's episodes; the WHERE clause reads e.user_id and s.cluster_id only.
HeardQuery(user_id) ==
    IF user_id = None THEN {}
    ELSE {r[2] : r \in {x \in srcTable : x[1] = user_id}}

\* WHERE clause of the candidate query (both variants).
Matches(a, subs, tags) ==
    /\ \/ a.subcategory \in Range(subs)
       \/ tags # <<>> /\ \E i \in 1..Len(tags) : TagMatches(a, tags[i])
    /\ a.importance_score >= MinImportance
    /\ a.fresh

\* SELECT DISTINCT ON (a.cluster_id) ... ORDER BY a.cluster_id,
\* combined_score DESC: per cluster, the matching article of highest
\* combined score.
CandidateQuery(subs, tags) ==
    LET M == {a \in Corpus : Matches(a, subs, tags)}
        best == {a \in M : \A b \in M : b.cluster_id = a.cluster_id
                                          => b.combined_score <= a.combined_score}
    IN  ByClusterId(best)

\* Lines 391-413 without the heard filter.
HeardFilterOff(rows, heard) == rows

\* Lines 391-413: rows whose cluster is not in the heard set.
HeardFilter(rows, heard) ==
    SelectSeq(rows, LAMBDA a : a.cluster_id \notin heard)

\* Lines 421-431: articles_by_subcat[sub], sorted by combined score.
BySubcat(elig, sub) ==
    SortDesc(SelectSeq(elig, LAMBDA a : a.subcategory = sub), "combined_score")

\* The candidates of a phase, were the selected clusters not excluded.
UnselectedOff(s, sel) == s

\* a['cluster_id'] not in selected_cluster_ids
Unselected(s, sel) == SelectSeq(s, LAMBDA a : a.cluster_id \notin sel)

ClusterIds(s) == {s[i].cluster_id : i \in 1..Len(s)}

\* Lines 450-475: one pass of the custom-tag loop per tag, in list order.
RECURSIVE Phase1Tags(_, _, _)
Phase1Tags(elig, tags, acc) ==
    IF tags = <<>> THEN acc
    ELSE LET all_tag_matches == SelectSeq(elig, LAMBDA a : TagMatches(a, Head(tags)))
             tag_articles == SortDesc(Unselected(all_tag_matches, ClusterIds(acc)),
                                      "combined_score")
         IN  Phase1Tags(elig, Tail(tags),
                        IF tag_articles # <<>> THEN Append(acc, tag_articles[1])
                        ELSE acc)

RECURSIVE ConcatSubcats(_, _)
ConcatSubcats(elig, subs) ==
    IF subs = <<>> THEN <<>>
    ELSE BySubcat(elig, Head(subs)) \o ConcatSubcats(elig, Tail(subs))

Take(s, n) == SubSeq(s, 1, IF n < Len(s) THEN n ELSE Len(s))

\* Lines 477-492: the two best unselected articles of the requested regions.
Phase1World(elig, subs, acc) ==
    LET world_news_selected == SelectSeq(subs, IsWorldNews)
        world_news_articles ==
            SortDesc(Unselected(ConcatSubcats(elig, world_news_selected),
                                ClusterIds(acc)), "combined_score")
    IN  IF world_news_selected # <<>>
        THEN acc \o Take(world_news_articles, WorldNewsMinimum)
        ELSE acc

\* Lines 500-514: the first unselected article of each other subcategory.
RECURSIVE Phase2a(_, _, _)
Phase2a(elig, subs, acc) ==
    IF subs = <<>> THEN acc
    ELSE LET free == Unselected(BySubcat(elig, Head(subs)), ClusterIds(acc))
         IN  Phase2a(elig, Tail(subs),
                     IF free # <<>> THEN Append(acc, free[1]) ELSE acc)

\* Lines 522-534: fill the remaining slots with the best unselected articles.
Phase2b(elig, n, acc) ==
    LET remaining_slots == n - Len(acc)
        unselected == SortDesc(Unselected(elig, ClusterIds(acc)), "combined_score")
    IN  IF remaining_slots > 0 THEN acc \o Take(unselected, remaining_slots)
        ELSE acc

\* Lines 540-546: drop the temporary fields, sort by importance.
PopTemp(a) ==
    [article_id |-> a.article_id, cluster_id |-> a.cluster_id,
     subcategory |-> a.subcategory, category |-> a.category,
     tags |-> a.tags, importance_score |-> a.importance_score]

FinalOrder(acc) ==
    SortDesc([i \in 1..Len(acc) |-> PopTemp(acc[i])], "importance_score")

\* get_articles_by_subcategories as a function of its arguments and of the
\* sources table (lines 225-560, without the exception path).
GetArticlesBySubcategories(subs, tags, n, user_id) ==
    IF subs = <<>> /\ tags = <<>> THEN <<>>
    ELSE
      LET elig == HeardFilter(CandidateQuery(subs, tags), HeardQuery(user_id))
          p1 == Phase1Tags(elig, tags, <<>>)
          p1w == Phase1World(elig, subs, p1)
          p2a == Phase2a(elig, SelectSeq(subs, LAMBDA x : ~IsWorldNews(x)), p1w)
      IN  IF elig = <<>> THEN <<>>
          ELSE FinalOrder(Phase2b(elig, n, p2a))

\* get_cluster_backups: up to `limit` other articles of the cluster, the
\* most recently published first (article ids grow with publication time).
ClusterBackups(cluster_id, exclude_id, limit) ==
    LET B == {a \in Corpus : a.cluster_id = cluster_id /\ a.article_id # exclude_id}
        RECURSIVE Ordered(_)
        Ordered(S) ==
            IF S = {} THEN <<>>
            ELSE LET a == CHOOSE x \in S : \A y \in S : x.article_id >= y.article_id
                 IN  <<a>> \o Ordered(S \ {a})
    IN  Take([i \in 1..Cardinality(B) |-> PopTemp(Ordered(B)[i])], limit)

SelInit ==
    /\ spc = "start"
    /\ req \in [subs : SubsChoices, tags : TagChoices, n : 1..MaxN, user : Users]
    /\ \E H \in SUBSET Clusters, status \in {"completed", "failed"} :
          /\ Cardinality(H) <= MaxHeard
          /\ srcTable = {<<"u1", c, status>> : c \in H}
                            \cup {<<"u2", 1, "completed">>}
    /\ heard_cluster_ids = {}
    /\ eligible_articles = <<>>
    /\ articles = <<>>
    /\ selected_cluster_ids = {}
    /\ phaseLen = <<>>
    /\ srcs = <<>>

SelIdle ==
    /\ spc = "off"
    /\ req = [subs |-> <<>>, tags |-> <<>>, n |-> 0, user |-> None]
    /\ srcTable = {}
    /\ heard_cluster_ids = {}
    /\ eligible_articles = <<>>
    /\ articles = <<>>
    /\ selected_cluster_ids = {}
    /\ phaseLen = <<>>
    /\ srcs = <<>>

\* Lines 225-419: early return, heard query, candidate query, heard filter.
\* Any exception inside the function returns [] (lines 562-564).
SelFetch ==
    /\ spc = "start"
    /\ \/ /\ req.subs = <<>> /\ req.tags = <<>>
          /\ spc' = "returned"
          /\ UNCHANGED <<heard_cluster_ids, eligible_articles>>
       \/ /\ ~(req.subs = <<>> /\ req.tags = <<>>)
          /\ heard_cluster_ids' = HeardQuery(req.user)
          /\ eligible_articles' =
                 HeardFilter(CandidateQuery(req.subs, req.tags), heard_cluster_ids')
          /\ spc' = IF eligible_articles' = <<>> THEN "returned" ELSE "phase1_tags"
       \/ /\ ~(req.subs = <<>> /\ req.tags = <<>>)
          /\ spc' = "error_returned"
          /\ UNCHANGED <<heard_cluster_ids, eligible_articles>>
    /\ UNCHANGED <<req, srcTable, articles, selected_cluster_ids, phaseLen, srcs>>
    /\ SelFrame

SelStep(from, to, new) ==
    /\ spc = from
    /\ articles' = new
    /\ selected_cluster_ids' = ClusterIds(new)
    /\ phaseLen' = Append(phaseLen, Len(new))
    /\ spc' = to
    /\ UNCHANGED <<req, srcTable, heard_cluster_ids, eligible_articles, srcs>>
    /\ SelFrame

\* Lines 450-475.
SelPhase1Tags ==
    SelStep("phase1_tags", "phase1_world",
            Phase1Tags(eligible_articles, req.tags, articles))

\* Lines 477-494.
SelPhase1World ==
    SelStep("phase1_world", "phase2a",
            Phase1World(eligible_articles, req.subs, articles))

\* Lines 500-516.
SelPhase2a ==
    SelStep("phase2a", "phase2b",
            Phase2a(eligible_articles,
                    SelectSeq(req.subs, LAMBDA x : ~IsWorldNews(x)), articles))

\* Lines 522-534.
SelPhase2b ==
    SelStep("phase2b", "final", Phase2b(eligible_articles, req.n, articles))

\* Lines 540-560.
SelReturn ==
    /\ spc = "final"
    /\ articles' = FinalOrder(articles)
    /\ spc' = "returned"
    /\ UNCHANGED <<req, srcTable, heard_cluster_ids, eligible_articles,
                   selected_cluster_ids, phaseLen, srcs>>
    /\ SelFrame

\* Lines 191-218: the source built from an article and its full text; fetches
\* is the list of fetch_article_content calls made for it, with their
\* outcome.
Source(a, text, fetches) ==
    [article_id |-> a.article_id, cluster_id |-> a.cluster_id,
     subcategory |-> a.subcategory, category |-> a.category,
     tags |-> a.tags, importance_score |-> a.importance_score,
     full_text |-> <<text, a.article_id>>, fetches |-> fetches]

\* The backup used, were the loop to go on after a successful fetch.
LastHit(hits) == CHOOSE k \in hits : \A j \in hits : j <= k

\* Lines 176-187: the loop over the backups breaks at the first success.
FirstHit(hits) == CHOOSE k \in hits : \A j \in hits : k <= j

\* Lines 155-218 for one article: ok[1] is the outcome of the anchor's
\* fetch, ok[k + 1] that of the k-th backup's.
ConvertArticle(article, backups, ok) ==
    LET hits == {k \in 1..Len(backups) : ok[k + 1]}
        tried == IF ok[1] THEN 0
                 ELSE IF hits # {} THEN FirstHit(hits)
                 ELSE Len(backups)
        fetches == <<<<article.article_id, ok[1]>>>>
                   \o [k \in 1..tried |-> <<backups[k].article_id, ok[k + 1]>>]
    IN  IF ok[1] THEN Source(article, "content", fetches)
        ELSE IF hits # {} THEN Source(backups[tried], "content", fetches)
        ELSE Source(article, "summary", fetches)

\* podcast_generator.py lines 155-218: one anchor converted to a source.
\* Every fetch returns text or None; get_cluster_backups returns the rows or,
\* on a database error, the empty list.
ConvertOne ==
    /\ spc = "returned"
    /\ Len(srcs) < Len(articles)
    /\ LET article == articles[Len(srcs) + 1]
       IN  \E backups \in {ClusterBackups(article.cluster_id,
                                          article.article_id, BackupLimit),
                            <<>>} :
             \E ok \in [1..(1 + Len(backups)) -> BOOLEAN] :
                srcs' = Append(srcs, ConvertArticle(article, backups, ok))
    /\ UNCHANGED <<spc, req, srcTable, heard_cluster_ids, eligible_articles,
                   articles, selected_cluster_ids, phaseLen>>
    /\ SelFrame

SelNext ==
    \/ SelFetch \/ SelPhase1Tags \/ SelPhase1World \/ SelPhase2a
    \/ SelPhase2b \/ SelReturn \/ ConvertOne

(***************************************************************************)
(* Ingestion: ClusteringService.process_article                            *)
(***************************************************************************)
Sessions == {1, 2}
Urls == {"u1", "u2"}

\* _calculate_hash: the MD5 digest of the URL.
Md5(url) == <<"md5", url>>

NoTxn == [clusters |-> {}, articles |-> {}]

NoCur == [url |-> None, hash |-> None, similar |-> {}, action |-> None,
          cluster_id |-> None, article_id |-> None]

RECURSIVE SeqsUpTo(_, _)
SeqsUpTo(S, n) ==
    IF n = 0 THEN {<<>>}
    ELSE LET shorter == SeqsUpTo(S, n - 1)
         IN  shorter \cup {Append(q, x) : q \in shorter, x \in S}

CluInit ==
    /\ dbArticles = {}
    /\ dbClusters = {}
    /\ nextId = 1
    /\ \E w \in [Sessions -> SeqsUpTo(Urls, MaxBatch)] :
          /\ Len(w[1]) + Len(w[2]) \in 1..MaxBatch
          /\ sess = [s \in Sessions |->
                    [cpc |-> "idle", work |-> w[s], cur |-> NoCur,
                     txn |-> NoTxn, results |-> <<>>]]

CluIdle ==
    /\ dbArticles = {}
    /\ dbClusters = {}
    /\ nextId = 0
    /\ sess = [s \in Sessions |->
                 [cpc |-> "off", work |-> <<>>, cur |-> NoCur,
                  txn |-> NoTxn, results |-> <<>>]]

\* process_article returns: the result is recorded and the session takes the
\* next record of its batch.
Returned(s, ret, embedded, committed) ==
    [sess[s] EXCEPT !.cpc = "idle", !.cur = NoCur,
        !.results = Append(@, [url |-> sess[s].cur.url, ret |-> ret,
                               embedded |-> embedded,
                               committed |-> committed,
                               action |-> sess[s].cur.action,
                               dberror |-> FALSE])]

\* The unique constraints on articles.url and articles.uniqueness_hash,
\* absent.
UniqueViolationNever(url, hash) == FALSE

\* The unique constraints on articles.url and articles.uniqueness_hash: the
\* insert is refused when a committed row has the URL or the hash.
UniqueViolation(url, hash) ==
    \E a \in dbArticles : a.url = url \/ a.uniqueness_hash = hash

\* Lines 41-43: the next record is taken and its hash calculated.
CalculateHash(s) ==
    /\ sess[s].cpc = "idle"
    /\ sess[s].work # <<>>
    /\ sess' = [sess EXCEPT ![s].cpc = "dup_check",
                            ![s].work = Tail(@),
                            ![s].cur = [NoCur EXCEPT
                                          !.url = Head(sess[s].work),
                                          !.hash = Md5(Head(sess[s].work))]]
    /\ UNCHANGED <<dbArticles, dbClusters, nextId>>
    /\ CluFrame

\* Lines 45-48 and _is_duplicate.
IsDuplicate(s) ==
    /\ sess[s].cpc = "dup_check"
    /\ IF \E a \in dbArticles : a.uniqueness_hash = sess[s].cur.hash
         THEN sess' = [sess EXCEPT ![s] = Returned(s, None, TRUE, FALSE)]
         ELSE sess' = [sess EXCEPT ![s].cpc = "embed"]
    /\ UNCHANGED <<dbArticles, dbClusters, nextId>>
    /\ CluFrame

\* Lines 50-56: the embedding, or None and the record is dropped.
GenerateEmbedding(s) ==
    /\ sess[s].cpc = "embed"
    /\ \/ sess' = [sess EXCEPT ![s].cpc = "similar"]
       \/ sess' = [sess EXCEPT ![s] = Returned(s, None, FALSE, FALSE)]
    /\ UNCHANGED <<dbArticles, dbClusters, nextId>>
    /\ CluFrame

\* Lines 58-59 and _find_similar_articles: committed rows above the
\* similarity threshold (any subset: the embeddings are not modelled).
FindSimilarArticles(s) ==
    /\ sess[s].cpc = "similar"
    /\ \E S \in SUBSET dbArticles :
          sess' = [sess EXCEPT ![s].cpc = "judge", ![s].cur.similar = S]
    /\ UNCHANGED <<dbArticles, dbClusters, nextId>>
    /\ CluFrame

\* Lines 61-62, _ai_judge_clustering and _parse_ai_decision: create_new, or
\* join_existing with the cluster of one of the neighbours; create_new when
\* there is no neighbour or the LLM call raises.
AiJudgeClustering(s) ==
    /\ sess[s].cpc = "judge"
    /\ \/ sess' = [sess EXCEPT ![s].cpc = "decide",
                               ![s].cur.action = "create_new",
                               ![s].cur.similar = {}]
       \/ \E a \in sess[s].cur.similar :
             sess' = [sess EXCEPT ![s].cpc = "decide",
                                  ![s].cur.action = "join_existing",
                                  ![s].cur.cluster_id = a.cluster_id,
                                  ![s].cur.similar = {}]
    /\ UNCHANGED <<dbArticles, dbClusters, nextId>>
    /\ CluFrame

\* Lines 64-68 with a _create_new_cluster that commits its INSERT at once.
ProcessDecisionCommits(s) ==
    /\ sess[s].cpc = "decide"
    /\ IF sess[s].cur.action = "create_new"
         THEN /\ sess' = [sess EXCEPT ![s].cpc = "save_insert",
                                      ![s].cur.cluster_id = nextId]
              /\ dbClusters' = dbClusters \cup
                    {[cluster_id |-> nextId,
                      canonical_title |-> sess[s].cur.url]}
              /\ nextId' = nextId + 1
         ELSE /\ sess' = [sess EXCEPT ![s].cpc = "save_insert"]
              /\ UNCHANGED <<nextId, dbClusters>>
    /\ UNCHANGED dbArticles
    /\ CluFrame

\* Lines 64-68 and _create_new_cluster: the cluster row is inserted in the
\* session's open transaction.
ProcessDecision(s) ==
    /\ sess[s].cpc = "decide"
    /\ IF sess[s].cur.action = "create_new"
         THEN /\ sess' = [sess EXCEPT
                    ![s].cpc = "save_insert",
                    ![s].cur.cluster_id = nextId,
                    ![s].txn.clusters = @ \cup
                        {[cluster_id |-> nextId,
                          canonical_title |-> sess[s].cur.url]}]
              /\ nextId' = nextId + 1
         ELSE /\ sess' = [sess EXCEPT ![s].cpc = "save_insert"]
              /\ UNCHANGED nextId
    /\ UNCHANGED <<dbArticles, dbClusters>>
    /\ CluFrame

\* _save_article lines 721-775 and 781-791: the INSERT. It waits while
\* another session holds an uncommitted row with the same key; a unique-key
\* error rolls the transaction back and the call returns None.
SaveArticleInsert(s) ==
    /\ sess[s].cpc = "save_insert"
    /\ \A t \in Sessions \ {s} :
          \A a \in sess[t].txn.articles : a.url # sess[s].cur.url
    /\ IF UniqueViolation(sess[s].cur.url, sess[s].cur.hash)
         THEN /\ sess' = [sess EXCEPT
                    ![s] = [Returned(s, None, TRUE, FALSE) EXCEPT !.txn = NoTxn]]
              /\ UNCHANGED nextId
         ELSE /\ sess' = [sess EXCEPT
                    ![s].cpc = "save_commit",
                    ![s].cur.article_id = nextId,
                    ![s].txn.articles = @ \cup
                        {[article_id |-> nextId,
                          cluster_id |-> sess[s].cur.cluster_id,
                          url |-> sess[s].cur.url,
                          uniqueness_hash |-> sess[s].cur.hash]}]
              /\ nextId' = nextId + 1
    /\ UNCHANGED <<dbArticles, dbClusters>>
    /\ CluFrame

\* _save_article lines 777-779: commit, and process_article lines 79-80.
SaveArticleCommit(s) ==
    /\ sess[s].cpc = "save_commit"
    /\ dbArticles' = dbArticles \cup sess[s].txn.articles
    /\ dbClusters' = dbClusters \cup sess[s].txn.clusters
    /\ sess' = [sess EXCEPT
          ![s] = [Returned(s, sess[s].cur.article_id, TRUE, TRUE)
                      EXCEPT !.txn = NoTxn]]
    /\ UNCHANGED nextId
    /\ CluFrame

\* _save_article lines 788-791 and process_article lines 82-89: the INSERT
\* or the COMMIT raises an error other than the unique-key one; the
\* transaction is rolled back, the error re-raised, and process_article
\* returns None.
SaveArticleFails(s) ==
    /\ sess[s].cpc \in {"save_insert", "save_commit"}
    /\ LET r == Returned(s, None, TRUE, FALSE)
       IN  sess' = [sess EXCEPT
              ![s] = [r EXCEPT !.txn = NoTxn,
                               !.results[Len(r.results)].dberror = TRUE]]
    /\ UNCHANGED <<dbArticles, dbClusters, nextId>>
    /\ CluFrame

CluNext ==
    \E s \in Sessions :
        \/ CalculateHash(s) \/ IsDuplicate(s) \/ GenerateEmbedding(s)
        \/ FindSimilarArticles(s) \/ AiJudgeClustering(s)
        \/ ProcessDecision(s) \/ SaveArticleInsert(s)
        \/ SaveArticleCommit(s) \/ SaveArticleFails(s)

(***************************************************************************)
(* Script assembly (adk_agents.py) and audio chunks (tts_service.py)       *)
(***************************************************************************)
BATCH_SIZE == 8
SilenceMs == 2000      \* the fallback silence, in milliseconds
CrossfadeMs == 50      \* the crossfade overlap, in milliseconds
SpeechMs == 3000       \* measured length of a generated chunk

\* Python's string order on the strings in use.
Alphabetical ==
    <<"", "AI & Machine Learning", "Crypto", "General", "Sports",
      "Technology", "Tennis", "World News">>

Rank(str) == CHOOSE i \in 1..Len(Alphabetical) : Alphabetical[i] = str

WORLD_NEWS_SUBCATEGORIES ==
    {"Africa", "Asia", "Europe", "Middle East", "North America",
     "South America", "Oceania"}

\* _normalize_topic_name
NormalizeTopicName(subcategory) ==
    IF subcategory \in WORLD_NEWS_SUBCATEGORIES THEN "World News"
    ELSE subcategory

\* RSS_FEEDS_CONFIG: the subcategories of every category.
RSS_FEEDS_CONFIG ==
    [c \in {"World News", "Politics & Government", "Business", "Technology",
            "Science & Environment", "Sports", "Arts & Culture", "Health",
            "Lifestyle"} |->
        CASE c = "World News" ->
               {"Africa", "Asia", "Europe", "Middle East", "North America",
                "South America", "Oceania"}
          [] c = "Politics & Government" ->
               {"US Politics", "International Politics", "Elections",
                "Policy & Legislation", "Government Affairs"}
          [] c = "Business" ->
               {"Markets", "Corporations & Earnings",
                "Startups & Entrepreneurship", "Economy and Policy"}
          [] c = "Technology" ->
               {"AI & Machine Learning", "Gadgets & Consumer Tech",
                "Software & Apps", "Cybersecurity",
                "Hardware & Infrastructure"}
          [] c = "Science & Environment" ->
               {"Space & Astronomy", "Biology", "Physics & Chemistry",
                "Research & Academia", "Climate & Weather", "Sustainability",
                "Conservation & Wildlife"}
          [] c = "Sports" ->
               {"Football (Soccer)", "American Football", "Basketball",
                "Baseball", "Cricket", "Tennis", "F1", "Boxing", "MMA", "Golf",
                "Ice hockey", "Rugby", "Volleyball",
                "Table Tennis (Ping Pong)", "Athletics"}
          [] c = "Arts & Culture" ->
               {"Celebrity News", "Gaming", "Film & TV", "Music",
                "Literature", "Art & Design", "Fashion"}
          [] c = "Health" ->
               {"Public Health", "Medicine & Healthcare",
                "Fitness & Wellness", "Mental Health"}
          [] c = "Lifestyle" ->
               {"Travel", "Food & Dining", "Home & Garden",
                "Relationships & Family", "Hobbies"}]

ConfiguredSubcategories ==
    UNION {RSS_FEEDS_CONFIG[c] : c \in DOMAIN RSS_FEEDS_CONFIG}

\* The (category, subcategory) pairs a source can carry.  The subcategory is
\* the judge's, kept as replied: a configured one, one outside the
\* configuration, or none.  The category is the configured category of the
\* subcategory, 'General' when there is none.
SourceKinds ==
    { [subcategory |-> "Europe",  category |-> "World News"],
      [subcategory |-> "Asia",    category |-> "World News"],
      [subcategory |-> "Tennis",  category |-> "Sports"],
      [subcategory |-> "AI & Machine Learning", category |-> "Technology"],
      [subcategory |-> "Crypto",  category |-> "General"],
      [subcategory |-> None,      category |-> "General"] }

\* Lines 375-381: sources grouped by normalized subcategory, topics in
\* first-appearance order.
RECURSIVE GroupSources(_, _)
GroupSources(q, acc) ==
    IF q = <<>> THEN acc
    ELSE LET name == NormalizeTopicName(Head(q).subcategory)
             at == {i \in 1..Len(acc) : acc[i].name = name}
         IN  IF at = {}
               THEN GroupSources(Tail(q),
                        Append(acc, [name |-> name, summaries |-> <<Head(q)>>]))
               ELSE LET i == CHOOSE j \in at : TRUE
                    IN  GroupSources(Tail(q),
                            [acc EXCEPT ![i].summaries = Append(@, Head(q))])

\* get_category_sort_key, lines 385-391, compared as Python compares tuples.
TopicCategory(t) == t.summaries[1].category

KeyLess(a, b) ==
    LET ca == IF TopicCategory(a) = None THEN 0 ELSE Rank(TopicCategory(a))
        cb == IF TopicCategory(b) = None THEN 0 ELSE Rank(TopicCategory(b))
    IN  \/ ca < cb
        \/ ca = cb /\ Rank(a.name) < Rank(b.name)

\* Comparing None with a string raises TypeError: two categories, or, when
\* the categories are equal, the two topic names.  (sorted() compares every
\* two keys that end up next to each other.)
SortRaises(ts) ==
    \E i, j \in 1..Len(ts) :
        \/ TopicCategory(ts[i]) = None /\ TopicCategory(ts[j]) # None
        \/ /\ i # j
           /\ TopicCategory(ts[i]) = TopicCategory(ts[j])
           /\ ts[i].name = None

RECURSIVE InsertByKey(_, _)
InsertByKey(t, q) ==
    IF q = <<>> THEN <<t>>
    ELSE IF KeyLess(t, Head(q)) THEN <<t>> \o q
    ELSE <<Head(q)>> \o InsertByKey(t, Tail(q))

\* sorted(topics_map.keys(), key=get_category_sort_key), lines 394-395.
RECURSIVE SortTopics(_)
SortTopics(q) ==
    IF q = <<>> THEN <<>> ELSE InsertByKey(Head(q), SortTopics(Tail(q)))

\* session.state without a "framing" entry.
NoFraming == [intro |-> None, outro |-> None]

\* session.state without a "metadata" entry.
NoMetadata == [title |-> None, tone |-> None]

TopicNames == {topics_map[i].name : i \in 1..Len(topics_map)}

\* The agents that have ended, with a script or with an exception.
EndedAgents == {agent_order[k] : k \in 1..Len(agent_order)}

ScrInit ==
    /\ gpc = "group"
    /\ \E ks \in SeqsUpTo(SourceKinds, MaxSources) \ {<<>>} :
          gsources = [i \in 1..Len(ks) |->
                        [id |-> i, category |-> ks[i].category,
                         subcategory |-> ks[i].subcategory]]
    /\ topics_map = <<>>
    /\ framing = NoFraming
    /\ metadata = NoMetadata
    /\ topic_scripts = <<>>
    /\ agent_order = <<>>
    /\ paragraphs = <<>>
    /\ audio_results = <<>>
    /\ tts_unordered = FALSE
    /\ audio_files = <<>>
    /\ all_timestamps = <<>>
    /\ combined = <<>>
    /\ transcript_data = <<>>

ScrIdle ==
    /\ gpc = "off"
    /\ gsources = <<>>
    /\ topics_map = <<>>
    /\ framing = NoFraming
    /\ metadata = NoMetadata
    /\ topic_scripts = <<>>
    /\ agent_order = <<>>
    /\ paragraphs = <<>>
    /\ audio_results = <<>>
    /\ tts_unordered = FALSE
    /\ audio_files = <<>>
    /\ all_timestamps = <<>>
    /\ combined = <<>>
    /\ transcript_data = <<>>

\* generate_podcast lines 374-395.
GroupAndSortTopics ==
    /\ gpc = "group"
    /\ LET grouped == GroupSources(gsources, <<>>)
       IN  IF SortRaises(grouped)
             THEN /\ gpc' = "raised"
                  /\ UNCHANGED topics_map
             ELSE /\ gpc' = "setup"
                  /\ topics_map' = SortTopics(grouped)
    /\ UNCHANGED <<gsources, framing, metadata, topic_scripts, agent_order, paragraphs,
                   audio_results, tts_unordered, audio_files, all_timestamps,
                   combined, transcript_data>>
    /\ ScrFrame

\* _run_async_impl lines 488-490: the setup agents in sequence.  The
\* metadata agent (lines 60-101) and the framing agent (lines 153-231) call
\* generate_content outside any try; an exception leaves the workflow
\* through run_async, and the later agents of the sequence do not run.
RunSetup ==
    /\ gpc = "setup"
    /\ \E metadata_ok \in BOOLEAN, framing_ok \in BOOLEAN :
          /\ metadata' = IF metadata_ok
                            THEN [title |-> "title", tone |-> "tone"]
                            ELSE NoMetadata
          /\ framing' = IF metadata_ok /\ framing_ok
                           THEN [intro |-> "intro", outro |-> "outro"]
                           ELSE NoFraming
          /\ gpc' = IF metadata_ok /\ framing_ok THEN "agents" ELSE "raised"
    /\ UNCHANGED <<gsources, topics_map, topic_scripts, agent_order,
                   paragraphs, audio_results, tts_unordered, audio_files,
                   all_timestamps, combined, transcript_data>>
    /\ ScrFrame

\* _run_async_impl lines 498-515: one TopicScriptAgent per topic;
\* topic_name.replace(...) raises AttributeError when the name is None.
CreateTopicAgents ==
    /\ gpc = "agents"
    /\ gpc' = IF None \in TopicNames THEN "raised" ELSE "topics"
    /\ UNCHANGED <<gsources, topics_map, framing, metadata, topic_scripts, agent_order,
                   paragraphs, audio_results, tts_unordered, audio_files,
                   all_timestamps, combined, transcript_data>>
    /\ ScrFrame

\* TopicScriptAgent._run_async_impl, run under ParallelAgent (lines
\* 498-520): the agents finish in any order, each writing its own key.
TopicScriptAgentRun ==
    /\ gpc = "topics"
    /\ \E i \in 1..Len(topics_map) :
          LET t == topics_map[i]
          IN  /\ t.name \notin EndedAgents
              /\ topic_scripts' =
                    [n \in DOMAIN topic_scripts \cup {t.name} |->
                        IF n = t.name
                          THEN [text |-> <<"script", t.name>>,
                                source_ids |->
                                    [k \in 1..Len(t.summaries) |->
                                        t.summaries[k].id],
                                topic |-> t.name]
                          ELSE topic_scripts[n]]
              /\ agent_order' = Append(agent_order, t.name)
    /\ UNCHANGED <<gpc, gsources, topics_map, framing, metadata, paragraphs,
                   audio_results, tts_unordered, audio_files, all_timestamps,
                   combined, transcript_data>>
    /\ ScrFrame

\* Where the workflow is after an agent's exception, were the exception
\* logged and not raised again.
AgentFailureLogged == "topics"

\* Lines 326-328: the except clause logs and re-raises; the exception leaves
\* the parallel workflow and generate_podcast.
AgentFailure == "raised"

\* TopicScriptAgent lines 292-328: generate_content or response.text.strip()
\* raises in one agent, which ends without writing its key.
TopicScriptAgentFails ==
    /\ gpc = "topics"
    /\ \E i \in 1..Len(topics_map) :
          /\ topics_map[i].name \notin EndedAgents
          /\ agent_order' = Append(agent_order, topics_map[i].name)
    /\ gpc' = AgentFailure
    /\ UNCHANGED <<gsources, topics_map, framing, metadata, topic_scripts,
                   paragraphs, audio_results, tts_unordered, audio_files,
                   all_timestamps, combined, transcript_data>>
    /\ ScrFrame

\* The order in which finished topics are assembled, were it the order in
\* which the agents finished.
CompletionOrder == agent_order

\* Line 544: for topic_name in self.topics_map.keys()
TopicOrder == [i \in 1..Len(topics_map) |-> topics_map[i].name]

RECURSIVE TopicParagraphs(_)
TopicParagraphs(names) ==
    IF names = <<>> THEN <<>>
    ELSE IF Head(names) \in DOMAIN topic_scripts
           THEN <<topic_scripts[Head(names)]>> \o TopicParagraphs(Tail(names))
           ELSE TopicParagraphs(Tail(names))

\* _run_async_impl lines 522-570.
AssembleScript ==
    /\ gpc = "topics"
    /\ EndedAgents = TopicNames
    /\ LET intro == IF framing.intro = None THEN "Welcome to Your Cast"
                    ELSE framing.intro
           outro == IF framing.outro = None THEN "Thanks for listening"
                    ELSE framing.outro
       IN  paragraphs' =
               <<[text |-> intro, source_ids |-> <<>>,
                  topic |-> "Introduction"]>>
               \o TopicParagraphs(TopicOrder)
               \o <<[text |-> outro, source_ids |-> <<>>, topic |-> "Outro"]>>
    /\ gpc' = "tts"
    /\ UNCHANGED <<gsources, topics_map, framing, metadata, topic_scripts, agent_order,
                   audio_results, tts_unordered, audio_files, all_timestamps,
                   combined, transcript_data>>
    /\ ScrFrame

BatchStart(i) == ((i - 1) \div BATCH_SIZE) * BATCH_SIZE + 1

\* generate_single_audio (lines 51-63) and the as_completed loop (lines
\* 66-92): within a batch the calls finish in any order; a failed call
\* yields the fallback silence.
GenerateSingleAudio ==
    /\ gpc = "tts"
    /\ \E i \in 1..Len(paragraphs) :
          /\ i \notin DOMAIN audio_results
          /\ \A j \in 1..(BatchStart(i) - 1) : j \in DOMAIN audio_results
          /\ \E ok \in BOOLEAN :
                audio_results' =
                    [k \in DOMAIN audio_results \cup {i} |->
                        IF k = i
                          THEN [path |-> IF ok THEN <<"topic", i - 1>>
                                         ELSE <<"silence", i - 1>>,
                                duration |-> IF ok THEN SpeechMs
                                             ELSE SilenceMs,
                                paragraph |-> paragraphs[i],
                                error |-> IF ok THEN None ELSE "tts error"]
                          ELSE audio_results[k]]
          /\ tts_unordered' =
                (tts_unordered \/ \E j \in 1..(i - 1) :
                                     j \notin DOMAIN audio_results)
    /\ UNCHANGED <<gpc, gsources, topics_map, framing, metadata, topic_scripts,
                   agent_order, paragraphs, audio_files, all_timestamps,
                   combined, transcript_data>>
    /\ ScrFrame

\* cumulative_duration before chunk i, lines 104 and 122-126.
RECURSIVE StartTime(_)
StartTime(i) ==
    IF i = 1 THEN 0
    ELSE IF i = 2 THEN audio_results[1].duration
    ELSE StartTime(i - 1) + audio_results[i - 1].duration - CrossfadeMs

\* Lines 101-129: the ordered lists, built by index.
BuildOrderedLists ==
    /\ gpc = "tts"
    /\ DOMAIN audio_results = 1..Len(paragraphs)
    /\ audio_files' = [i \in 1..Len(paragraphs) |-> audio_results[i].path]
    /\ all_timestamps' =
          [i \in 1..Len(paragraphs) |->
              [paragraph_index |-> i - 1,
               paragraph_text |-> audio_results[i].paragraph.text,
               audio_path |-> audio_results[i].path,
               start_time |-> StartTime(i),
               end_time |-> StartTime(i) + audio_results[i].duration,
               duration |-> audio_results[i].duration,
               topic |-> audio_results[i].paragraph.topic,
               source_ids |-> audio_results[i].paragraph.source_ids]]
    /\ gpc' = "combine"
    /\ UNCHANGED <<gsources, topics_map, framing, metadata, topic_scripts, agent_order,
                   paragraphs, audio_results, tts_unordered, combined, transcript_data>>
    /\ ScrFrame

\* combine_audio_chunks lines 575-631: the chunks appended in list order.
CombineAudioChunks ==
    /\ gpc = "combine"
    /\ combined' = audio_files
    /\ gpc' = "align"
    /\ UNCHANGED <<gsources, topics_map, framing, metadata, topic_scripts, agent_order,
                   paragraphs, audio_results, tts_unordered, audio_files,
                   all_timestamps, transcript_data>>
    /\ ScrFrame

(***************************************************************************)
(* Transcript segments (transcript_service.py), times in milliseconds      *)
(***************************************************************************)
PauseMs == 250           \* the pause added after a chunk with word timings
FallbackPauseMs == 500   \* the pause of the estimated timing

\* len(text.split()) / 2.67 seconds.
EstimateMs(text) == (Len(text) * 100000) \div 267

\* chunk.get('words', [])
WordTimestamps(chunk) ==
    IF "words" \in DOMAIN chunk THEN chunk.words ELSE <<>>

\* A chunk without a 'duration' entry.
NoDuration == -1

\* The duration, were it always estimated from the text.
ChunkDurationEstimated(chunk) == EstimateMs(chunk.paragraph_text)

\* chunk.get('duration', len(paragraph_text.split()) / 2.67)
ChunkDuration(chunk) ==
    IF "duration" \in DOMAIN chunk /\ chunk.duration # NoDuration
      THEN chunk.duration
      ELSE EstimateMs(chunk.paragraph_text)

\* script.paragraphs[paragraph_index]["source_ids"] if paragraph_index <
\* len(script.paragraphs) else []
SourceIdsAt(script, paragraph_index) ==
    IF paragraph_index < Len(script) THEN script[paragraph_index + 1].source_ids
    ELSE <<>>

\* Line 118 with the time left where it was.
AdvanceForgotten(t, d) == t

\* Line 118: current_audio_time += chunk_duration
Advance(t, d) == t + d

\* _create_segments_from_tts_timestamps, lines 87-147: the loop over the
\* chunks from the i-th on, current_audio_time being t.
RECURSIVE SegmentsFrom(_, _, _, _)
SegmentsFrom(chunks, script, i, t) ==
    IF i > Len(chunks) THEN <<>>
    ELSE
      LET chunk == chunks[i]
          word_timestamps == WordTimestamps(chunk)
          last == word_timestamps[Len(word_timestamps)]
      IN  IF chunk.topic \in {"Introduction", "Outro"}
            THEN LET chunk_duration ==
                        IF word_timestamps = <<>> THEN ChunkDuration(chunk)
                        ELSE last.end
                 IN  SegmentsFrom(chunks, script, i + 1,
                                  t + chunk_duration + PauseMs)
          ELSE IF word_timestamps = <<>>
            THEN <<[start |-> t,
                    end |-> t + ChunkDuration(chunk),
                    text |-> chunk.paragraph_text,
                    topic |-> chunk.topic,
                    source_ids |-> SourceIdsAt(script, chunk.paragraph_index),
                    words |-> <<>>]>>
                 \o SegmentsFrom(chunks, script, i + 1,
                                 Advance(t, ChunkDuration(chunk)))
          ELSE <<[start |-> t + word_timestamps[1].start,
                  end |-> t + last.end,
                  text |-> chunk.paragraph_text,
                  topic |-> chunk.topic,
                  source_ids |-> SourceIdsAt(script, chunk.paragraph_index),
                  words |-> [k \in 1..Len(word_timestamps) |->
                               [text |-> word_timestamps[k].text,
                                start |-> t + word_timestamps[k].start,
                                end |-> t + word_timestamps[k].end]]]>>
               \o SegmentsFrom(chunks, script, i + 1, t + last.end + PauseMs)

\* _create_fallback_segments, lines 149-169.
RECURSIVE FallbackSegmentsFrom(_, _, _)
FallbackSegmentsFrom(script, i, t) ==
    IF i > Len(script) THEN <<>>
    ELSE LET duration == EstimateMs(script[i].text)
         IN  <<[start |-> t, end |-> t + duration, text |-> script[i].text,
                topic |-> None, source_ids |-> script[i].source_ids,
                words |-> <<>>]>>
             \o FallbackSegmentsFrom(script, i + 1,
                                     t + duration + FallbackPauseMs)

\* generate_forced_alignment, lines 13-23.
ForcedAlignment(script, chunk_timestamps) ==
    IF chunk_timestamps # <<>>
      THEN SegmentsFrom(chunk_timestamps, script, 1, 0)
      ELSE FallbackSegmentsFrom(script, 1, 0)

\* podcast_generator.py lines 92-94, in the script and audio run.
GenerateForcedAlignment ==
    /\ gpc = "align"
    /\ transcript_data' = ForcedAlignment(paragraphs, all_timestamps)
    /\ gpc' = "done"
    /\ UNCHANGED <<gsources, topics_map, framing, metadata, topic_scripts, agent_order,
                   paragraphs, audio_results, tts_unordered, audio_files,
                   all_timestamps, combined>>
    /\ ScrFrame

\* The word timings a TTS provider can return for a chunk: none, or
\* well-formed ones (each word ends after it starts, words in time order).
WordLists ==
    { <<>>,
      <<[text |-> "a", start |-> 0, end |-> 400]>>,
      <<[text |-> "a", start |-> 100, end |-> 400],
        [text |-> "b", start |-> 400, end |-> 900]>> }

\* Paragraph text (as its list of words), duration (measured, zero, or
\* absent) and word timings of a chunk.
ChunkTimings ==
    { [paragraph_text |-> <<"a">>, duration |-> SpeechMs, words |-> <<>>],
      [paragraph_text |-> <<"a">>, duration |-> 0, words |-> <<>>],
      [paragraph_text |-> <<"a", "b">>, duration |-> NoDuration,
       words |-> <<>>] }
    \cup { [paragraph_text |-> <<"a", "b">>, duration |-> SpeechMs,
            words |-> w] : w \in WordLists \ {<<>>} }

\* The chunks of the function's domain.
ChunkKinds ==
    { [topic |-> tp, paragraph_text |-> c.paragraph_text,
       duration |-> c.duration, words |-> c.words] :
        tp \in {"Introduction", "Outro", "Tennis"}, c \in ChunkTimings }

AlignInit ==
    /\ apc = "call"
    /\ \E ks \in SeqsUpTo(ChunkKinds, MaxChunks) \ {<<>>} :
          /\ ascript = [i \in 1..Len(ks) |->
                          [text |-> ks[i].paragraph_text,
                           topic |-> ks[i].topic,
                           source_ids |-> <<i>>]]
          /\ \E with_timestamps \in BOOLEAN :
                achunks =
                    IF with_timestamps
                      THEN [i \in 1..Len(ks) |->
                              [paragraph_index |-> i - 1,
                               paragraph_text |-> ks[i].paragraph_text,
                               topic |-> ks[i].topic,
                               duration |-> ks[i].duration,
                               words |-> ks[i].words]]
                      ELSE <<>>
    /\ asegments = <<>>

AlignIdle ==
    /\ apc = "off"
    /\ ascript = <<>>
    /\ achunks = <<>>
    /\ asegments = <<>>

\* generate_forced_alignment called on the arguments.
AlignCall ==
    /\ apc = "call"
    /\ asegments' = ForcedAlignment(ascript, achunks)
    /\ apc' = "returned"
    /\ UNCHANGED <<ascript, achunks>>
    /\ AlignFrame

AlignNext == AlignCall

ScrNext ==
    \/ GroupAndSortTopics \/ RunSetup \/ CreateTopicAgents
    \/ TopicScriptAgentRun
    \/ TopicScriptAgentFails \/ AssembleScript \/ GenerateSingleAudio
    \/ BuildOrderedLists \/ CombineAudioChunks \/ GenerateForcedAlignment

(***************************************************************************)
(* Two episode runs in one worker process (http_worker.py): the handler    *)
(* coroutines share the event loop and the temporary directory             *)
(***************************************************************************)
Runs == {1, 2}
Free == 0

NoFile == [owner |-> 0, data |-> <<>>]

\* tts_service.py lines 201, 570 and 619: the paths are built from the
\* chunk index alone.
ChunkPath(kind, i) == <<kind, i>>
CombinedPath == <<"combined_podcast">>

TmpPaths ==
    {ChunkPath(k, i) : k \in {"topic", "silence"}, i \in 0..(MaxParas - 1)}
    \cup {CombinedPath}

Live(r) == rpc[r] \in {"awaiting", "tts", "combine", "upload"}

\* A run touching a file that the other run wrote and still needs.
Foreign(r, path) ==
    /\ tmpfiles[path] # NoFile
    /\ tmpfiles[path].owner # r
    /\ Live(tmpfiles[path].owner)

ConcInit ==
    /\ loop = Free
    /\ rpc = [r \in Runs |-> "idle"]
    /\ nparas \in [Runs -> 1..MaxParas]
    /\ tmpfiles = [p \in TmpPaths |-> NoFile]
    /\ chunk_paths = [r \in Runs |-> <<>>]
    /\ uploaded = [r \in Runs |-> <<>>]
    /\ interfered = FALSE

ConcIdle ==
    /\ loop = Free
    /\ rpc = [r \in Runs |-> "off"]
    /\ nparas = [r \in Runs |-> 0]
    /\ tmpfiles = <<>>
    /\ chunk_paths = [r \in Runs |-> <<>>]
    /\ uploaded = [r \in Runs |-> <<>>]
    /\ interfered = FALSE

\* The synchronous code after the await, were it to give the event loop
\* away after each call.
AfterStepYields(r) == Free

\* podcast_generator.py lines 76-135: no await after line 75, so the
\* coroutine keeps the event loop until it returns or raises.
AfterStep(r) == r

\* http_worker.py lines 47-69 and podcast_generator.py lines 29-75: the
\* handler runs, synchronously, up to the await of generate_podcast; it
\* writes no temporary file.
ConcStart(r) ==
    /\ rpc[r] = "idle"
    /\ loop = Free
    /\ rpc' = [rpc EXCEPT ![r] = "awaiting"]
    /\ UNCHANGED <<loop, nparas, tmpfiles, chunk_paths, uploaded, interfered>>
    /\ ConcFrame

\* podcast_generator.py lines 75-79: generate_podcast returns and the
\* coroutine is resumed.
ConcResume(r) ==
    /\ rpc[r] = "awaiting"
    /\ loop = Free
    /\ rpc' = [rpc EXCEPT ![r] = "tts"]
    /\ loop' = AfterStep(r)
    /\ UNCHANGED <<nparas, tmpfiles, chunk_paths, uploaded, interfered>>
    /\ ConcFrame

\* generate_audio_chunks: chunk i is written to topic_<i>, or on failure
\* the silence to silence_<i> (tts_service.py lines 51-63).
ConcTtsChunk(r) ==
    /\ rpc[r] = "tts"
    /\ loop \in {r, Free}
    /\ LET i == Len(chunk_paths[r])
       IN  \E kind \in {"topic", "silence"} :
              LET path == ChunkPath(kind, i)
              IN  /\ tmpfiles' = [tmpfiles EXCEPT
                         ![path] = [owner |-> r, data |-> <<<<r, kind, i>>>>]]
                  /\ chunk_paths' = [chunk_paths EXCEPT ![r] = Append(@, path)]
                  /\ interfered' = (interfered \/ Foreign(r, path))
                  /\ rpc' = [rpc EXCEPT
                         ![r] = IF i + 1 = nparas[r] THEN "combine" ELSE "tts"]
    /\ loop' = AfterStep(r)
    /\ UNCHANGED <<nparas, uploaded>>
    /\ ConcFrame

\* The data of the files at the paths, missing files skipped
\* (tts_service.py lines 580-616).
RECURSIVE Concatenated(_)
Concatenated(paths) ==
    IF paths = <<>> THEN <<>>
    ELSE (IF tmpfiles[Head(paths)] = NoFile THEN <<>>
          ELSE tmpfiles[Head(paths)].data) \o Concatenated(Tail(paths))

\* combine_audio_chunks, lines 575-631: the chunks are read in list order,
\* the result is written to combined_podcast.mp3 and the chunks are removed.
ConcCombine(r) ==
    /\ rpc[r] = "combine"
    /\ loop \in {r, Free}
    /\ LET paths == {chunk_paths[r][k] : k \in 1..Len(chunk_paths[r])}
       IN  /\ tmpfiles' =
                 [p \in TmpPaths |->
                     IF p = CombinedPath
                       THEN [owner |-> r,
                             data |-> Concatenated(chunk_paths[r])]
                     ELSE IF p \in paths THEN NoFile
                     ELSE tmpfiles[p]]
           /\ interfered' =
                 (interfered \/ Foreign(r, CombinedPath)
                             \/ \E p \in paths : Foreign(r, p))
    /\ rpc' = [rpc EXCEPT ![r] = "upload"]
    /\ loop' = AfterStep(r)
    /\ UNCHANGED <<nparas, chunk_paths, uploaded>>
    /\ ConcFrame

\* podcast_generator.py line 101 and storage_service.py lines 35-81: the
\* combined file is uploaded and removed; a missing file raises.
ConcUpload(r) ==
    /\ rpc[r] = "upload"
    /\ loop \in {r, Free}
    /\ IF tmpfiles[CombinedPath] = NoFile
         THEN /\ rpc' = [rpc EXCEPT ![r] = "failed"]
              /\ UNCHANGED <<tmpfiles, uploaded, interfered>>
         ELSE /\ uploaded' = [uploaded EXCEPT ![r] = tmpfiles[CombinedPath].data]
              /\ tmpfiles' = [tmpfiles EXCEPT ![CombinedPath] = NoFile]
              /\ interfered' = (interfered \/ Foreign(r, CombinedPath))
              /\ rpc' = [rpc EXCEPT ![r] = "done"]
    /\ loop' = Free
    /\ UNCHANGED <<nparas, chunk_paths>>
    /\ ConcFrame

\* podcast_generator.py lines 137-142: a call of the run raises; the
\* temporary files written so far stay where they are.
ConcFail(r) ==
    /\ rpc[r] \in {"tts", "combine", "upload"}
    /\ loop \in {r, Free}
    /\ rpc' = [rpc EXCEPT ![r] = "failed"]
    /\ loop' = Free
    /\ UNCHANGED <<nparas, tmpfiles, chunk_paths, uploaded, interfered>>
    /\ ConcFrame

ConcNext ==
    \E r \in Runs :
        \/ ConcStart(r) \/ ConcResume(r) \/ ConcTtsChunk(r)
        \/ ConcCombine(r) \/ ConcUpload(r) \/ ConcFail(r)

(***************************************************************************)
(* The importance of a new cluster: from the judge's reply to the row      *)
(***************************************************************************)
\* Factor scores the judge replies with (integers of 1..100).
FactorScores == {40, 55, 60, 80}

DefaultImportance == 50

DigitChars == <<"0", "1", "2", "3", "4", "5", "6", "7", "8", "9">>

IsDigit(c) == \E d \in 1..10 : DigitChars[d] = c

DigitValue(c) == (CHOOSE d \in 1..10 : DigitChars[d] = c) - 1

\* The decimal digits of a natural number, as characters.
RECURSIVE Digits(_)
Digits(n) ==
    IF n < 10 THEN <<DigitChars[n + 1]>>
    ELSE Digits(n \div 10) \o <<DigitChars[(n % 10) + 1]>>

\* str() of a float that has one decimal, given in tenths: 588 -> "58.8".
StrOfTenths(t) == Digits(t \div 10) \o <<".">> \o Digits(t % 10)

\* re.search(r'(\d+)', s).group(1): the first maximal run of digits of s,
\* or the empty sequence when s has no digit.
RECURSIVE DigitRunFrom(_, _)
DigitRunFrom(s, i) ==
    IF i > Len(s) \/ ~IsDigit(s[i]) THEN <<>>
    ELSE <<s[i]>> \o DigitRunFrom(s, i + 1)

FirstDigitRun(s) ==
    IF \E i \in 1..Len(s) : IsDigit(s[i])
    THEN DigitRunFrom(s, CHOOSE i \in 1..Len(s) :
                            /\ IsDigit(s[i])
                            /\ \A j \in 1..(i - 1) : ~IsDigit(s[j]))
    ELSE <<>>

\* int() of a run of digits.
RECURSIVE IntOfDigits(_)
IntOfDigits(ds) ==
    IF ds = <<>> THEN 0
    ELSE 10 * IntOfDigits(SubSeq(ds, 1, Len(ds) - 1))
         + DigitValue(ds[Len(ds)])

\* Lines 648-656: the importance the decision carries after parsing.
ParseImportance(t) ==
    LET match == FirstDigitRun(StrOfTenths(t))
    IN  IF match # <<>> THEN IntOfDigits(match) ELSE DefaultImportance

FactorSum(r) == r.surprise + r.prominence + r.magnitude + r.emotion

\* A record without a 'feed_category' key; a decision without an
\* 'importance_score' key.
NoHint == "no feed_category"

NoScore == -1

\* _categorize_article, lines 670-683, on a title given as its lower-case
\* words (the code tests each keyword as a substring of the title).
CategorizeArticle(title) ==
    LET words == {title[i] : i \in 1..Len(title)}
    IN  IF words \cap {"tech", "ai", "apple", "google", "microsoft"} # {}
          THEN "Technology"
        ELSE IF words \cap {"election", "president", "congress", "politics"}
                  # {}
          THEN "Politics"
        ELSE IF words \cap {"stock", "market", "economy", "business"} # {}
          THEN "Business"
        ELSE IF words \cap {"health", "medical", "covid", "vaccine"} # {}
          THEN "Health"
        ELSE "General"

\* Line 175: new_article.get('feed_category', self._categorize_article(...))
FeedCategory(rec) ==
    IF rec.feed_category # NoHint THEN rec.feed_category
    ELSE CategorizeArticle(rec.title)

\* Lines 622-645: category and subcategory of the parsed decision.
DerivedCategory(subcategory) ==
    IF subcategory # None
         /\ \E c \in DOMAIN RSS_FEEDS_CONFIG : subcategory \in RSS_FEEDS_CONFIG[c]
      THEN CHOOSE c \in DOMAIN RSS_FEEDS_CONFIG :
              subcategory \in RSS_FEEDS_CONFIG[c]
      ELSE "General"

DerivedSubcategory(subcategory) == subcategory

NoDecision ==
    [action |-> None, importance_score |-> NoScore, category |-> None,
     subcategory |-> None, tags |-> <<>>]

NoClusterRow == [canonical_title |-> <<>>, importance_score |-> 0]

NoArticleRow == [category |-> None, subcategory |-> None, tags |-> <<>>]

NoReply ==
    [raises |-> FALSE, surprise |-> 0, prominence |-> 0, magnitude |-> 0,
     emotion |-> 0, importance10 |-> 0, subcategory |-> None, tags |-> <<>>]

NoRecord == [title |-> <<>>, feed_category |-> NoHint]

JudgeIdle ==
    /\ jpc = "off"
    /\ reply = NoReply
    /\ decision = NoDecision
    /\ cluster_row = NoClusterRow
    /\ article_data = NoRecord
    /\ similar = FALSE
    /\ article_row = NoArticleRow

\* The record, whether it has neighbours, and the judge's answer: an
\* exception, or a create_new reply in the format the prompt asks for: four
\* integer factor scores, importance_score their mean to one decimal
\* (importance10 is that value in tenths; a mean ending in 5 hundredths may
\* be rounded either way), a subcategory and tags.
JudgeInit ==
    /\ jpc = "reply"
    /\ \E a \in FactorScores, b \in FactorScores, c \in FactorScores,
          d \in FactorScores, t \in 10..1000,
          sub \in {"Tennis", "Crypto", None}, r \in BOOLEAN :
          /\ 10 * t - 25 * (a + b + c + d) \in -5..5
          /\ reply = [raises |-> r, surprise |-> a, prominence |-> b,
                      magnitude |-> c, emotion |-> d, importance10 |-> t,
                      subcategory |-> sub, tags |-> <<"tag">>]
    /\ \E title \in {<<"apple", "unveils", "chip">>,
                       <<"team", "wins", "final">>},
          hint \in {"Sports", NoHint} :
          article_data = [title |-> title, feed_category |-> hint]
    /\ similar \in BOOLEAN
    /\ decision = NoDecision
    /\ cluster_row = NoClusterRow
    /\ article_row = NoArticleRow

\* _ai_judge_clustering with a reply (lines 177-197 and 209-234), through
\* _parse_ai_decision (lines 599-658).
ParseAiDecision ==
    /\ jpc = "reply"
    /\ ~reply.raises
    /\ decision' = [action |-> "create_new",
                    importance_score |-> ParseImportance(reply.importance10),
                    category |-> DerivedCategory(reply.subcategory),
                    subcategory |-> DerivedSubcategory(reply.subcategory),
                    tags |-> reply.tags]
    /\ jpc' = "parsed"
    /\ UNCHANGED <<reply, cluster_row, article_data, similar, article_row>>
    /\ JudgeFrame

\* _ai_judge_clustering when generate_text raises: lines 199-207 without
\* neighbours, lines 236-244 with neighbours.
JudgeFallback ==
    /\ jpc = "reply"
    /\ reply.raises
    /\ decision' = [action |-> "create_new",
                    importance_score |-> NoScore,
                    category |-> IF similar
                                   THEN CategorizeArticle(article_data.title)
                                   ELSE FeedCategory(article_data),
                    subcategory |-> None,
                    tags |-> <<>>]
    /\ jpc' = "parsed"
    /\ UNCHANGED <<reply, cluster_row, article_data, similar, article_row>>
    /\ JudgeFrame

\* _create_new_cluster, lines 685-719.
CreateNewCluster ==
    /\ jpc = "parsed"
    /\ decision.action = "create_new"
    /\ cluster_row' =
          [canonical_title |-> article_data.title,
           importance_score |-> IF decision.importance_score = NoScore
                                  THEN DefaultImportance
                                  ELSE decision.importance_score]
    /\ jpc' = "stored"
    /\ UNCHANGED <<reply, decision, article_data, similar, article_row>>
    /\ JudgeFrame

\* _save_article, lines 748-779.
SaveArticle ==
    /\ jpc = "stored"
    /\ article_row' = [category |-> decision.category,
                       subcategory |-> decision.subcategory,
                       tags |-> decision.tags]
    /\ jpc' = "saved"
    /\ UNCHANGED <<reply, decision, cluster_row, article_data, similar>>
    /\ JudgeFrame

JudgeNext ==
    ParseAiDecision \/ JudgeFallback \/ CreateNewCluster \/ SaveArticle

(***************************************************************************)
(* Episode jobs between the API and the workers                            *)
(***************************************************************************)
\* The statuses a row goes through, in the order of a run that succeeds:
\* the API's states, the handler's "processing", then the pipeline's.
StatusOrder == <<"pending", "queued", "processing">> \o Tail(DeclaredStates)

\* The statuses generate_episode writes on its way to completed.
PipelineStates == Tail(DeclaredStates)

NoRow == "no row"

WorkerAt(p, k) == [pc |-> p, stage |-> k]

JobIdle ==
    /\ erows = <<>>
    /\ api = <<>>
    /\ cloud_tasks = {}
    /\ episode_queue = <<>>
    /\ wpc = <<>>
    /\ executed = {}

\* ---- API with Cloud Tasks, worker behind /generate ----
ApiInit ==
    /\ erows = [e \in 1..MaxRequests |-> NoRow]
    /\ api = [e \in 1..MaxRequests |-> "new"]
    /\ cloud_tasks = {}
    /\ episode_queue = <<>>
    /\ wpc = [e \in 1..MaxRequests |-> WorkerAt("idle", 0)]
    /\ executed = {}

\* api/episodes.py lines 197-209: the episode row is inserted as pending.
CreateEpisode(e) ==
    /\ api[e] = "new"
    /\ erows' = [erows EXCEPT ![e] = "pending"]
    /\ api' = [api EXCEPT ![e] = "created"]
    /\ UNCHANGED <<cloud_tasks, episode_queue, wpc, executed>>
    /\ JobFrame

\* queue_episode_generation lines 25-30: the Cloud Task is created, or
\* create_task raises.
CreateTask(e) ==
    /\ api[e] = "created"
    /\ \/ /\ cloud_tasks' = cloud_tasks \cup {e}
          /\ api' = [api EXCEPT ![e] = "task_created"]
       \/ /\ api' = [api EXCEPT ![e] = "failing"]
          /\ UNCHANGED cloud_tasks
    /\ UNCHANGED <<erows, episode_queue, wpc, executed>>
    /\ JobFrame

\* queue_episode_generation lines 33-37: episode.status = "queued"; commit.
WriteQueued(e) ==
    /\ api[e] = "task_created"
    /\ \/ /\ erows' = [erows EXCEPT ![e] = "queued"]
          /\ api' = [api EXCEPT ![e] = "returned"]
       \/ /\ api' = [api EXCEPT ![e] = "failing"]
          /\ UNCHANGED erows
    /\ UNCHANGED <<cloud_tasks, episode_queue, wpc, executed>>
    /\ JobFrame

\* queue_episode_generation lines 41-49: except: status failed, re-raise.
WriteFailed(e) ==
    /\ api[e] = "failing"
    /\ \/ erows' = [erows EXCEPT ![e] = "failed"]
       \/ UNCHANGED erows
    /\ api' = [api EXCEPT ![e] = "raised"]
    /\ UNCHANGED <<cloud_tasks, episode_queue, wpc, executed>>
    /\ JobFrame

\* http_worker.py lines 57-66: the task is delivered and the handler
\* writes processing.
HttpReceive(e) ==
    /\ e \in cloud_tasks
    /\ wpc[e].pc = "idle"
    /\ cloud_tasks' = cloud_tasks \ {e}
    /\ \/ /\ erows' = [erows EXCEPT ![e] = "processing"]
          /\ wpc' = [wpc EXCEPT ![e] = WorkerAt("run", 0)]
       \/ /\ wpc' = [wpc EXCEPT ![e] = WorkerAt("except", 0)]
          /\ UNCHANGED erows
    /\ UNCHANGED <<api, episode_queue, executed>>
    /\ JobFrame

\* http_worker.py line 69, podcast_generator.py lines 32-135: the awaited
\* pipeline writes its next status.
HttpStage(e) ==
    /\ wpc[e].pc = "run"
    /\ LET k == wpc[e].stage + 1
       IN  /\ erows' = [erows EXCEPT ![e] = PipelineStates[k]]
           /\ wpc' = [wpc EXCEPT ![e] =
                         IF k = Len(PipelineStates) THEN WorkerAt("done", k)
                         ELSE WorkerAt("run", k)]
    /\ executed' = executed \cup {e}
    /\ UNCHANGED <<api, cloud_tasks, episode_queue>>
    /\ JobFrame

\* podcast_generator.py lines 137-142 and http_worker.py lines 79-91: a
\* stage raises and the run writes failed.
HttpFail(e) ==
    /\ wpc[e].pc \in {"run", "except"}
    /\ erows' = [erows EXCEPT ![e] = "failed"]
    /\ wpc' = [wpc EXCEPT ![e] = WorkerAt("done", @.stage)]
    /\ executed' = IF wpc[e].pc = "run" THEN executed \cup {e} ELSE executed
    /\ UNCHANGED <<api, cloud_tasks, episode_queue>>
    /\ JobFrame

ApiNext ==
    \/ \E e \in DOMAIN erows : CreateEpisode(e)
    \/ \E e \in DOMAIN erows : CreateTask(e)
    \/ \E e \in DOMAIN erows : WriteQueued(e)
    \/ \E e \in DOMAIN erows : WriteFailed(e)
    \/ \E e \in DOMAIN erows : HttpReceive(e)
    \/ \E e \in DOMAIN erows : HttpStage(e)
    \/ \E e \in DOMAIN erows : HttpFail(e)

\* ---- API with Redis, redis_worker.start_worker ----
RedisInit ==
    /\ erows = [e \in 1..MaxJobs |-> "pending"]
    /\ api = [e \in 1..MaxJobs |-> "created"]
    /\ cloud_tasks = {}
    /\ episode_queue = <<>>
    /\ wpc = [e \in 1..MaxJobs |-> WorkerAt("idle", 0)]
    /\ executed = {}

\* app/services/episode_service.py lines 30-38: lpush of the job.
Lpush(e) ==
    /\ api[e] = "created"
    /\ episode_queue' = <<e>> \o episode_queue
    /\ api' = [api EXCEPT ![e] = "returned"]
    /\ UNCHANGED <<erows, cloud_tasks, wpc, executed>>
    /\ JobFrame

\* redis_worker.py lines 22-36: the loop is between two jobs and brpop
\* returns the rightmost job.
Brpop ==
    /\ \A e \in DOMAIN wpc : wpc[e].pc \in {"idle", "finished"}
    /\ episode_queue # <<>>
    /\ LET e == episode_queue[Len(episode_queue)]
       IN  wpc' = [wpc EXCEPT ![e] = WorkerAt("job", 0)]
    /\ episode_queue' = SubSeq(episode_queue, 1, Len(episode_queue) - 1)
    /\ UNCHANGED <<erows, api, cloud_tasks, executed>>
    /\ JobFrame

\* redis_worker.py lines 39-46: set_episode_status(processing).
RedisSetProcessing(e) ==
    /\ wpc[e].pc = "job"
    /\ \/ /\ erows' = [erows EXCEPT ![e] = "processing"]
          /\ wpc' = [wpc EXCEPT ![e] = WorkerAt("call", 0)]
       \/ /\ wpc' = [wpc EXCEPT ![e] = WorkerAt("except", 0)]
          /\ UNCHANGED erows
    /\ UNCHANGED <<api, cloud_tasks, episode_queue, executed>>
    /\ JobFrame

\* redis_worker.py lines 48-51: generator.generate_episode(...) is called
\* without await from a plain function.  generate_episode is `async def`
\* (podcast_generator.py line 29): the call builds a coroutine object,
\* which is dropped; the body does not run, nothing is raised, and the
\* worker logs the job as completed.
RedisCallGenerateEpisode(e) ==
    /\ wpc[e].pc = "call"
    /\ wpc' = [wpc EXCEPT ![e] = WorkerAt("finished", 0)]
    /\ UNCHANGED <<erows, api, cloud_tasks, episode_queue, executed>>
    /\ JobFrame

\* redis_worker.py lines 53-58: except: set_episode_status(failed); when
\* that raises too, the outer handler (lines 60-62) logs and sleeps.
RedisExcept(e) ==
    /\ wpc[e].pc = "except"
    /\ \/ erows' = [erows EXCEPT ![e] = "failed"]
       \/ UNCHANGED erows
    /\ wpc' = [wpc EXCEPT ![e] = WorkerAt("finished", 0)]
    /\ UNCHANGED <<api, cloud_tasks, episode_queue, executed>>
    /\ JobFrame

RedisNext ==
    \/ \E e \in DOMAIN erows : Lpush(e)
    \/ Brpop
    \/ \E e \in DOMAIN erows : RedisSetProcessing(e)
    \/ \E e \in DOMAIN erows : RedisCallGenerateEpisode(e)
    \/ \E e \in DOMAIN erows : RedisExcept(e)

(***************************************************************************)
(* Specifications                                                          *)
(***************************************************************************)
vars ==
    <<pipeVars, selVars, cluVars, scrVars, alignVars, concVars, judgeVars,
      jobVars>>

PipeIdle ==
    /\ pc = "off"
    /\ run = 0
    /\ row = InitialRow("pending")
    /\ statusRun = 0
    /\ writes = <<>>
    /\ raised = NoError
    /\ errAt = 0
    /\ steps = {}
    /\ runUploads = [r \in 1..MaxDeliveries |-> [k \in Kinds |-> 0]]
    /\ store = {}
    /\ sources = 0
    /\ segments = 0
    /\ startSnap = [row |-> row, sources |-> 0, segments |-> 0]
    /\ loc = NoLocals

Init == PipeInit /\ SelIdle /\ CluIdle /\ ScrIdle /\ AlignIdle /\ ConcIdle
    /\ JudgeIdle /\ JobIdle

Next == PipeNext

Spec == Init /\ [][Next]_vars

SelSpecInit == PipeIdle /\ SelInit /\ CluIdle /\ ScrIdle /\ AlignIdle /\ ConcIdle
    /\ JudgeIdle
    /\ JobIdle

SelSpecNext == SelNext

SelSpec == SelSpecInit /\ [][SelSpecNext]_vars

CluSpecInit == PipeIdle /\ SelIdle /\ CluInit /\ ScrIdle /\ AlignIdle /\ ConcIdle
    /\ JudgeIdle
    /\ JobIdle

CluSpecNext == CluNext

CluSpec == CluSpecInit /\ [][CluSpecNext]_vars

ScriptSpecInit == PipeIdle /\ SelIdle /\ CluIdle /\ ScrInit /\ AlignIdle /\ ConcIdle
    /\ JudgeIdle
    /\ JobIdle

ScriptSpecNext == ScrNext

ScriptSpec == ScriptSpecInit /\ [][ScriptSpecNext]_vars

AlignSpecInit ==
    PipeIdle /\ SelIdle /\ CluIdle /\ ScrIdle /\ AlignInit /\ ConcIdle
    /\ JudgeIdle
    /\ JobIdle

AlignSpecNext == AlignNext

AlignSpec == AlignSpecInit /\ [][AlignSpecNext]_vars

ConcSpecInit ==
    PipeIdle /\ SelIdle /\ CluIdle /\ ScrIdle /\ AlignIdle /\ ConcInit
    /\ JudgeIdle
    /\ JobIdle

ConcSpecNext == ConcNext

ConcSpec == ConcSpecInit /\ [][ConcSpecNext]_vars

JudgeSpecInit ==
    PipeIdle /\ SelIdle /\ CluIdle /\ ScrIdle /\ AlignIdle /\ ConcIdle
    /\ JudgeInit
    /\ JobIdle

JudgeSpecNext == JudgeNext

JudgeSpec == JudgeSpecInit /\ [][JudgeSpecNext]_vars

ApiSpecInit ==
    PipeIdle /\ SelIdle /\ CluIdle /\ ScrIdle /\ AlignIdle /\ ConcIdle
    /\ JudgeIdle /\ ApiInit

ApiSpecNext == ApiNext

ApiSpec == ApiSpecInit /\ [][ApiSpecNext]_vars

RedisSpecInit ==
    PipeIdle /\ SelIdle /\ CluIdle /\ ScrIdle /\ AlignIdle /\ ConcIdle
    /\ JudgeIdle /\ RedisInit

RedisSpecNext == RedisNext

RedisSpec == RedisSpecInit /\ [][RedisSpecNext]_vars

\* The worker is a `while True` loop of one process: it keeps taking steps.
RedisFairSpec == RedisSpec /\ WF_vars(RedisSpecNext)

(***************************************************************************)
(* Claims about the episode pipeline (checked under Spec)                  *)
(***************************************************************************)
Successor(st) ==
    LET i == CHOOSE j \in 1..Len(DeclaredStates) : DeclaredStates[j] = st
    IN  DeclaredStates[i + 1]

InChain(st) == \E j \in 1..Len(DeclaredStates) : DeclaredStates[j] = st

LaterStates == {"extracting_content", "generating_script", "generating_audio",
                "generating_timestamps", "uploading_files", "finalizing",
                "completed"}

C2_DeclaredChainOnly ==
    \A i \in 1..Len(writes) :
        LET prev == IF i = 1 THEN startSnap.row.status ELSE writes[i - 1]
        IN  \/ writes[i] = "failed"
            \/ /\ InChain(writes[i])
               /\ InChain(prev)
               /\ prev # "completed"
               /\ writes[i] = Successor(prev)

\* C3: whenever the episode's status is completed, the run that wrote it has
\* uploaded the audio, the transcript and the chapter file exactly once each,
\* the three artifacts are in the object store and the three URLs on the row
\* are non-empty.
C3_CompletedHasArtifacts ==
    row.status = "completed" =>
        /\ statusRun \in 1..MaxDeliveries
        /\ \A k \in Kinds : runUploads[statusRun][k] = 1
        /\ Kinds \subseteq store
        /\ row.audio_url # EmptyUrl
        /\ row.transcript_url # EmptyUrl
        /\ row.vtt_url # EmptyUrl

\* C3 witness: a run has written completed and returned.
C3_Witness == row.status = "completed" /\ pc = "return_ok" /\ statusRun = run

\* C4 (as claimed): a request delivered for an episode whose status is
\* already completed or failed changes nothing on the row, stores no sources
\* or segments and executes no selection, LLM, TTS or upload step.
C4_TerminalRedeliveryNoOp ==
    (run >= 1 /\ startSnap.row.status \in {"completed", "failed"}) =>
        (Snapshot = startSnap /\ steps = {})

HeardAtStart == {r[2] : r \in {x \in srcTable : x[1] = req.user /\ x[1] # None}}

\* The eligible unheard candidates of the request: one row per cluster.
Candidates ==
    SelectSeq(CandidateQuery(req.subs, req.tags),
              LAMBDA a : a.cluster_id \notin HeardAtStart)

Min(a, b) == IF a < b THEN a ELSE b

\* C5: no article selected in any phase, no article returned and no source
\* produced by the backup substitution belongs to a cluster of the user's
\* heard set.
C5_NoHeardCluster ==
    /\ \A i \in 1..Len(articles) : articles[i].cluster_id \notin HeardAtStart
    /\ \A i \in 1..Len(srcs) : srcs[i].cluster_id \notin HeardAtStart

\* C5 witness: the user has heard a cluster that matches the request, the
\* call returned articles and a backup replaced one of the anchors.
C5_Witness ==
    /\ spc = "returned"
    /\ Len(srcs) = Len(articles)
    /\ \E i \in 1..Len(srcs) : srcs[i].article_id # articles[i].article_id
    /\ \E a \in Range(CandidateQuery(req.subs, req.tags)) :
           a.cluster_id \in HeardAtStart

\* C8 (as claimed): the call returns exactly min(N, number of eligible
\* unheard candidate clusters) articles.
C8_CountIsMin ==
    spc = "returned" => Len(articles) = Min(req.n, Len(Candidates))

\* C9 (as claimed): every requested subcategory, world-news region or not,
\* that has an eligible unheard candidate is represented in the returned
\* list.
C9_EverySubcategoryRepresented ==
    spc = "returned" =>
        \A sub \in Range(req.subs) :
            (\E a \in Range(Candidates) : a.subcategory = sub)
                => \E i \in 1..Len(articles) : articles[i].subcategory = sub

(***************************************************************************)
(* Claims about ingestion (checked under CluSpec)                          *)
(***************************************************************************)
AllReturned == \A s \in Sessions : sess[s].cpc = "idle" /\ sess[s].work = <<>>

\* The finished invocations on one URL, as <<session, index>> pairs.
Invocations(url) ==
    {p \in Sessions \X (1..MaxBatch + 1) :
        /\ p[2] <= Len(sess[p[1]].results)
        /\ sess[p[1]].results[p[2]].url = url}

Result(p) == sess[p[1]].results[p[2]]

\* C7: at most one article row per URL exists in every committed state;
\* and once every invocation has returned, for each URL whose invocations
\* all got their embedding and met no database error but the unique-key
\* one: exactly one of them committed an article row (and returned its id)
\* and every other one returned None.
C7_OneCommitPerUrl ==
    /\ \A u \in Urls : Cardinality({a \in dbArticles : a.url = u}) <= 1
    /\ AllReturned =>
          \A u \in Urls :
             (/\ Invocations(u) # {}
              /\ \A p \in Invocations(u) :
                    Result(p).embedded /\ ~Result(p).dberror)
             => /\ Cardinality({p \in Invocations(u) : Result(p).committed}) = 1
                /\ Cardinality({a \in dbArticles : a.url = u}) = 1
                /\ \A p \in Invocations(u) :
                      IF Result(p).committed
                        THEN \E a \in dbArticles :
                                a.url = u /\ a.article_id = Result(p).ret
                        ELSE Result(p).ret = None

\* C7 witness: two invocations on different sessions raced on one URL: the
\* loser got past the duplicate check and into _save_article, where the
\* insert was refused, and the URL has its one row.
C7_Witness ==
    /\ AllReturned
    /\ \E u \in Urls :
          /\ \E a \in dbArticles : a.url = u
          /\ \E s \in Sessions :
                /\ \E i \in 1..Len(sess[s].results) :
                      /\ sess[s].results[i].url = u
                      /\ ~sess[s].results[i].committed
                      /\ sess[s].results[i].embedded
                      /\ ~sess[s].results[i].dberror
          /\ \A p \in Invocations(u) : ~Result(p).dberror
                /\ nextId > 2 * Cardinality(dbArticles) + 1

(***************************************************************************)
(* Claims about script and audio order (checked under ScriptSpec)          *)
(***************************************************************************)
\* A topic's category is that of the first source, in input order, whose
\* normalized subcategory is the topic.
CategoryOf(name) ==
    LET first == CHOOSE i \in 1..Len(gsources) :
                    /\ NormalizeTopicName(gsources[i].subcategory) = name
                    /\ \A j \in 1..(i - 1) :
                          NormalizeTopicName(gsources[j].subcategory) # name
    IN  gsources[first].category

NameKeyLess(a, b) ==
    LET ca == IF CategoryOf(a) = None THEN 0 ELSE Rank(CategoryOf(a))
        cb == IF CategoryOf(b) = None THEN 0 ELSE Rank(CategoryOf(b))
    IN  ca < cb \/ (ca = cb /\ Rank(a) < Rank(b))

Topics(q) == [i \in 1..Len(q) |-> q[i].topic]

\* Introduction first, Outro last, and between them every topic of the
\* sources exactly once, ascending by (category, topic name).
InEpisodeOrder(ts) ==
    /\ Len(ts) >= 2
    /\ ts[1] = "Introduction"
    /\ ts[Len(ts)] = "Outro"
    /\ {ts[i] : i \in 2..(Len(ts) - 1)} =
          {NormalizeTopicName(gsources[i].subcategory) : i \in 1..Len(gsources)}
    /\ \A i \in 2..(Len(ts) - 2) : NameKeyLess(ts[i], ts[i + 1])

\* C10: whatever the order in which the topic agents and the TTS calls
\* finished, the script paragraphs, the chunk list, the chunk timestamps
\* and the combined audio all run Introduction, the topics ascending by
\* (category, topic name), Outro; chunk i is the audio of paragraph i.
C10_EpisodeOrder ==
    /\ paragraphs # <<>> => InEpisodeOrder(Topics(paragraphs))
    /\ all_timestamps # <<>> =>
          /\ InEpisodeOrder(Topics(all_timestamps))
          /\ Len(audio_files) = Len(paragraphs)
          /\ \A i \in 1..Len(all_timestamps) :
                /\ all_timestamps[i].paragraph_text = paragraphs[i].text
                /\ all_timestamps[i].audio_path = audio_files[i]
                /\ audio_files[i][2] = i - 1
    /\ gpc = "done" => combined = audio_files

\* C10 witness: an episode was finished although the topic agents finished
\* in another order than the script's and a TTS call overtook an earlier
\* chunk's.
C10_Witness ==
    /\ gpc = "done"
    /\ Len(topics_map) >= 2
    /\ agent_order # TopicOrder
    /\ tts_unordered

(***************************************************************************)
(* Claims about cancellation and partial uploads (checked under Spec)      *)
(***************************************************************************)
\* C18 (as claimed): a run that was cancelled while suspended has ended with
\* the episode's status failed and an error text on the row, and with no
\* artifact in the object store.
C18_CancelledEndsFailed ==
    pc = "cancelled" =>
        /\ row.status = "failed"
        /\ row.error # NoError
        /\ store = {}

\* C19 (as claimed): whenever the episode's status is failed the object
\* store holds no audio, transcript or chapter file of the episode.
C19_FailedKeepsNoUploads ==
    row.status = "failed" => store = {}

(***************************************************************************)
(* Claims about cluster rows (checked under CluSpec)                       *)
(***************************************************************************)
\* C13: in every committed database state each story_clusters row is
\* referenced by at least one article row.
C13_NoOrphanCluster ==
    \A c \in dbClusters : \E a \in dbArticles : a.cluster_id = c.cluster_id

\* C13 witness: an invocation inserted a new cluster and then failed to
\* insert its article, once by the unique-key race and once by another
\* database error, and articles were committed.
C13_Witness ==
    /\ dbArticles # {}
    /\ \E s, t \in Sessions :
          /\ \E i \in 1..Len(sess[s].results) :
                /\ sess[s].results[i].action = "create_new"
                /\ ~sess[s].results[i].committed
                /\ sess[s].results[i].dberror
          /\ \E i \in 1..Len(sess[t].results) :
                /\ sess[t].results[i].action = "create_new"
                /\ ~sess[t].results[i].committed
                /\ ~sess[t].results[i].dberror

(***************************************************************************)
(* Claims about transcript segments (checked under AlignSpec)              *)
(***************************************************************************)
\* C12: when every chunk handed to generate_forced_alignment has a positive
\* duration, every returned segment starts before it ends and starts no
\* earlier than the end of the segment before it.
C12_SegmentsOrdered ==
    (/\ apc = "returned"
     /\ \A i \in 1..Len(achunks) : ChunkDuration(achunks[i]) > 0)
    => /\ \A i \in 1..Len(asegments) : asegments[i].start < asegments[i].end
       /\ \A i \in 2..Len(asegments) :
             asegments[i].start >= asegments[i - 1].end

\* C12 witness: three segments were returned for chunks of positive
\* duration, the first timed by the chunk's duration and another by its
\* word timings.
C12_Witness ==
    /\ apc = "returned"
    /\ Len(achunks) = 3
    /\ \A i \in 1..Len(achunks) : ChunkDuration(achunks[i]) > 0
    /\ Len(asegments) = 3
    /\ asegments[1].words = <<>>
    /\ asegments[2].words # <<>>

(***************************************************************************)
(* Claims about concurrent episode runs (checked under ConcSpec)           *)
(***************************************************************************)
\* The chunks a run rendered, in paragraph order.
OwnChunks(r) ==
    [k \in 1..Len(chunk_paths[r]) |->
        <<r, chunk_paths[r][k][1], chunk_paths[r][k][2]>>]

\* C11: no run reads, overwrites or deletes a temporary file that the other
\* run wrote and still needs, and the audio a run uploads consists of its
\* own paragraphs' chunks, all of them, in order.
C11_RunsDoNotInterfere ==
    /\ ~interfered
    /\ \A r \in Runs :
          rpc[r] = "done" =>
              /\ uploaded[r] = OwnChunks(r)
              /\ Len(uploaded[r]) = nparas[r]

\* C11 witness: both runs uploaded their audio, and the second was received
\* and rendered while the first was suspended in script generation, both
\* using the same chunk path.
C11_Witness ==
    /\ \A r \in Runs : rpc[r] = "done" /\ nparas[r] = MaxParas
    /\ chunk_paths[1] = chunk_paths[2]


(***************************************************************************)
(* Claims about the stored importance (checked under JudgeSpec)            *)
(***************************************************************************)
\* C14: for a cluster row created from a reply with four integer factor
\* scores in 1..100 and a one-decimal importance_score, the stored
\* importance is within 0.05 of the mean of the four factor scores.
\* (Compared in hundredths: 100 * stored against 25 * sum of the factors.)
C14_StoredWithinMean ==
    jpc = "stored" /\ ~reply.raises =>
        100 * cluster_row.importance_score - 25 * FactorSum(reply) \in -5..5


(***************************************************************************)
(* Claims about topic labels and failures (checked under ScriptSpec)       *)
(***************************************************************************)
\* C15 (as claimed): every paragraph of the assembled script has a topic
\* label that is "Introduction", "Outro", "World News" or one of the
\* configured subcategories, whatever subcategories the selected articles
\* carry.
C15_TopicLabelsConfigured ==
    \A i \in 1..Len(paragraphs) :
        paragraphs[i].topic \in
            {"Introduction", "Outro", "World News"} \cup ConfiguredSubcategories


\* The paragraphs (1-based) whose text-to-speech call failed.
FailedParagraphs ==
    {i \in DOMAIN audio_results : audio_results[i].error # None}

C17_NoTopicMissing ==
    /\ gpc = "raised" => paragraphs = <<>>
    /\ gpc = "topics" => DOMAIN topic_scripts = EndedAgents
    /\ paragraphs # <<>> =>
          /\ gpc \in {"tts", "combine", "align", "done"}
          /\ Len(paragraphs) = Len(topics_map) + 2
          /\ \A i \in 1..Len(topics_map) :
                /\ paragraphs[i + 1].topic = TopicOrder[i]
                /\ paragraphs[i + 1] = topic_scripts[TopicOrder[i]]

\* C17 witness: with two topics, one agent wrote its script and the other
\* then failed: the generation raised and there is no script.
C17_Witness ==
    /\ gpc = "raised"
    /\ Len(topics_map) = 2
    /\ Len(agent_order) = 2
    /\ Cardinality(DOMAIN topic_scripts) = 1
    /\ paragraphs = <<>>


(***************************************************************************)
(* Claims about custom-tag lists (checked under SelSpec)                   *)
(***************************************************************************)
\* Two tag lists that name the same tags up to letter case and repetition.
CaseVariants(t1, t2) ==
    {Lower(t1[i]) : i \in 1..Len(t1)} = {Lower(t2[i]) : i \in 1..Len(t2)}

\* C20 (as claimed): a call returns the selection that the same call with
\* any custom-tag list differing only in letter case or in repetitions of a
\* tag under other casings returns.
C20_CaseVariantsSameSelection ==
    spc = "returned" =>
        \A t \in TagChoices :
            CaseVariants(t, req.tags) =>
                GetArticlesBySubcategories(req.subs, t, req.n, req.user)
                    = articles


(***************************************************************************)
(* Claims about the conversion to sources (checked under SelSpec)          *)
(***************************************************************************)
\* The backups get_cluster_backups returns for an anchor.
BackupsOf(anchor) ==
    ClusterBackups(anchor.cluster_id, anchor.article_id, BackupLimit)

\* C21: every anchor yields exactly one source, of the anchor's cluster: the
\* anchor with the fetched text when its fetch succeeds; otherwise at most
\* three backups of the cluster (never the anchor) are fetched in the
\* returned order up to the first success, which replaces the anchor; when
\* every fetch fails the source is the anchor with its summary as body.
C21_OneSourcePerAnchor ==
    /\ Len(srcs) <= Len(articles)
    /\ \A i \in 1..Len(srcs) :
          LET src == srcs[i]
              anchor == articles[i]
              log == src.fetches
              n == Len(log) - 1
          IN  /\ src.cluster_id = anchor.cluster_id
              /\ log[1][1] = anchor.article_id
              /\ n <= BackupLimit
              /\ \A k \in 1..n :
                    /\ log[k + 1][1] = BackupsOf(anchor)[k].article_id
                    /\ log[k + 1][1] # anchor.article_id
                    /\ ~log[k][2]
              /\ IF log[Len(log)][2]
                    THEN /\ src.article_id = log[Len(log)][1]
                         /\ src.full_text = <<"content", src.article_id>>
                    ELSE /\ src.article_id = anchor.article_id
                         /\ src.full_text = <<"summary", anchor.article_id>>
                         /\ n \in {0, Len(BackupsOf(anchor))}

\* C21 witness: an anchor's fetch and its first backup's fetch failed and the
\* second backup replaced it, while another anchor, all of whose three
\* backups failed, was kept with its summary.
C21_Witness ==
    /\ Len(srcs) = Len(articles)
    /\ \E i \in 1..Len(srcs) :
          /\ Len(srcs[i].fetches) = 3
          /\ srcs[i].article_id # articles[i].article_id
    /\ \E i \in 1..Len(srcs) : srcs[i].full_text[1] = "summary"


(***************************************************************************)
(* Claims about the phases of the selector (checked under SelSpec)         *)
(***************************************************************************)
\* The eligible articles matching custom tag j whose cluster is not among
\* the first c selected articles.
TagCandidates(j, c) ==
    {a \in Range(eligible_articles) :
        /\ TagMatches(a, req.tags[j])
        /\ a.cluster_id \notin ClusterIds(SubSeq(articles, 1, c))}

\* The number of articles selected once the first j custom tags are done, if
\* each tag with a candidate left adds one article.
RECURSIVE PicksAfter(_)
PicksAfter(j) ==
    IF j = 0 THEN 0
    ELSE LET c == PicksAfter(j - 1)
         IN  IF TagCandidates(j, c) = {} THEN c ELSE c + 1

\* C22: after Phase 1(a), every custom tag, in list order, that had a
\* case-insensitively matching candidate not yet selected has added exactly
\* one such candidate, one of highest combined score; a tag without one has
\* added nothing.
C22_OneBestPerTag ==
    spc = "phase1_world" =>
        /\ Len(articles) = PicksAfter(Len(req.tags))
        /\ \A j \in 1..Len(req.tags) :
              LET c == PicksAfter(j - 1)
                  cands == TagCandidates(j, c)
              IN  cands # {} =>
                      /\ articles[c + 1] \in cands
                      /\ \A a \in cands :
                            a.combined_score <= articles[c + 1].combined_score

\* C22 witness: of two custom tags the first added the best match and the
\* second, whose best match is that same article, added another one.
C22_Witness ==
    /\ spc = "phase1_world"
    /\ Len(req.tags) = 2
    /\ Len(articles) = 2
    /\ TagMatches(articles[1], req.tags[2])

\* C23 (as claimed): Phase 2a adds an article of a requested subcategory only
\* if Phase 1 chose no article of that subcategory.
C23_NoSecondForRepresented ==
    spc = "phase2b" =>
        \A i \in (phaseLen[2] + 1)..phaseLen[3] :
            \A k \in 1..phaseLen[2] :
                articles[k].subcategory # articles[i].subcategory


\* C24 (as claimed): whenever the judge call raises, with or without
\* neighbours, a new cluster titled as the article with importance 50 is
\* created and the article is stored with the record's feed category hint
\* as category, no subcategory and no tags.
C24_FallbackUsesFeedHint ==
    jpc = "saved" /\ reply.raises /\ article_data.feed_category # NoHint =>
        /\ cluster_row.canonical_title = article_data.title
        /\ cluster_row.importance_score = DefaultImportance
        /\ article_row.category = article_data.feed_category
        /\ article_row.subcategory = None
        /\ article_row.tags = <<>>

\* C25 (as claimed): a reply naming a subcategory outside the configuration
\* gives a decision, and an article row, with category "General" and no
\* subcategory.
C25_UnknownSubcategoryDropped ==
    /\ jpc \in {"parsed", "stored", "saved"}
    /\ ~reply.raises
    /\ reply.subcategory # None
    /\ reply.subcategory \notin ConfiguredSubcategories
    => /\ decision.category = "General"
       /\ decision.subcategory = None
       /\ jpc = "saved" => /\ article_row.category = "General"
                           /\ article_row.subcategory = None


\* C26 (as claimed): when the framing agent fails after the metadata agent
\* succeeded, the workflow does not end with an exception: the topic agents
\* still run, and the assembled script opens and closes with the canned
\* intro and outro.
C26_FramingFailureTolerated ==
    metadata # NoMetadata /\ framing = NoFraming /\ gpc # "setup" =>
        /\ gpc # "raised"
        /\ paragraphs # <<>> =>
              /\ paragraphs[1].text = "Welcome to Your Cast"
              /\ paragraphs[Len(paragraphs)].text = "Thanks for listening"


\* C27 (as claimed): a cluster is kept out of a user's selection as already
\* heard only if it is a source of one of that user's completed episodes;
\* the sources of a run that ended failed remain selectable.
C27_HeardOnlyIfCompleted ==
    spc \notin {"start", "error_returned"} =>
        LET candidates == CandidateQuery(req.subs, req.tags)
        IN  \A i \in 1..Len(candidates) :
               candidates[i] \notin Range(eligible_articles) =>
                  \E r \in srcTable : /\ r[1] = req.user
                                      /\ r[2] = candidates[i].cluster_id
                                      /\ r[3] = "completed"


\* C30 (as claimed): within one pipeline run, once the episode row has been
\* written with status completed, no later write of that run sets another
\* status: completed is never followed by failed.
C30_CompletedIsFinalInRun ==
    [][row.status = "completed" /\ statusRun = run /\ run' = run
          => row'.status = "completed"]_vars


\* C28 (as claimed, for the Redis queue loop): every job taken by the
\* worker eventually drives its episode to completed or failed.
C28_TakenJobTerminates ==
    \A e \in 1..MaxJobs :
        (wpc[e].pc = "job") ~> (erows[e] \in {"completed", "failed"})

\* C29 (as claimed): in every interleaving of the API's create request with
\* the worker run its task starts, the status of the episode row never
\* moves backward in the status order; failed is final.
StatusRank(st) ==
    IF st = "failed" THEN Len(StatusOrder) + 1
    ELSE IF st = NoRow THEN 0
    ELSE CHOOSE k \in 1..Len(StatusOrder) : StatusOrder[k] = st

C29_StatusNeverBackward ==
    [][\A e \in DOMAIN erows :
          StatusRank(erows'[e]) >= StatusRank(erows[e])]_vars

====
